---------------------------- MODULE Spec2Model ----------------------------
(***************************************************************************)
(* A model of the migration engine of scripts/transform_original.py        *)
(* (class DatabaseMigrator): the type mapper convert_datatype, the page    *)
(* insert insert_batch_to_mariadb, the row-level fallback                  *)
(* fallback_single_insert, the table transfer migrate_table_data, the      *)
(* table creation create_mariadb_table, the validator, the orchestration   *)
(* migrate_full_database, the introspection get_table_schema, the cleanup  *)
(* clean_mariadb_tables and the statements issued on the source.           *)
(*                                                                         *)
(* Each component has its own variables and its own specification; the     *)
(* variables of the components a specification does not run stay at their  *)
(* initial values.                                                         *)
(***************************************************************************)
EXTENDS Integers, Sequences, FiniteSets, TLC

VARIABLES
    \* ---- convert_datatype (one call) ----
    mt_pc,            \* "call" before the call, "done" after it
    mt_type,          \* mssql_type: the type name, a sequence of characters
    mt_length,        \* length:    Optional[int]
    mt_precision,     \* precision: Optional[int]
    mt_scale,         \* scale:     Optional[int]
    mt_out,           \* the returned type string
    \* ---- insert_batch_to_mariadb (one call) ----
    ins_pc,           \* "call", "done"
    ins_df,           \* the page: a sequence of rows
    ins_fail,         \* the driver call that fails (0: none fails)
    ins_calls,        \* the driver calls issued, in order
    ins_ok,           \* the returned bool
    \* ---- fallback_single_insert (one call) ----
    fb_pc,            \* "idle", "loop", "done"
    fb_df,            \* the page: a sequence of rows
    fb_pos,           \* rows of the page the loop has taken so far
    fb_attempted,     \* rows handed to cursor.execute, in order
    success_count,
    error_count,
    fb_ok,            \* the returned bool
    \* ---- migrate_table_data (one call) ----
    pc,               \* "start", "loop", "commit", "done"
    source,           \* the source table, in primary-key order (read only)
    batch_size,       \* self.batch_size
    total_records,
    offset,
    migrated_count,
    batch_number,
    table,            \* committed rows of the target table (visible to every session)
    txn,              \* rows staged in the open target transaction, not yet committed
    conn_open,        \* the target connection of this call is open
    result,           \* "none" while running, then "true" or "false"
    pages,            \* history: <<offset, rows>> of every page fetched
    inserted,         \* history: every row a driver insert call accepted, in order
    checkpoints,      \* history: the number of pages fetched at each successful commit inside the loop
    failure,          \* history: what made the call fail ("" if nothing)
    target_calls,     \* history: the calls on the target connection, in order
    \* ---- create_mariadb_table (two calls in succession) ----
    ct_pc,            \* "first", "second", "done"
    ct_columns,       \* columns: the column descriptors of get_table_schema
    ct_primary_keys,  \* primary_keys: column names
    ct_target,        \* the target table of that name
    ct_prior,         \* history: the target table before the first call
    ct_injected,      \* history: <<connection opened, statement hit by a driver error>> of each call
    ct_raised,        \* history: the statements that raised in each call
    ct_returned,      \* history: the returned bool of each call
    ct_after,         \* history: the target table after each call
    \* ---- validate_migration_complete (one call) ----
    va_pc,            \* "tables" while the loop runs, then "done"
    va_todo,          \* the tables of the loop not yet validated
    va_data,          \* the column every table of the run holds, in source and target
    va_names,         \* history: the tables validated so far, in order
    va_raised,        \* history: what failed in the validation of each of them
    va_results,       \* validation_results['tables'], in the order of the loop
    overall_success,  \* validation_results['overall_success']
    \* ---- migrate_full_database (one call) ----
    or_pc,            \* "start", "structure", "transfer", "remaining", "done"
    source_tables,    \* the base tables of the source schema, by name
    all_tables,       \* the result of get_mssql_tables
    or_queue,         \* the tables the running loop has still to take
    structure_success_count,
    data_success_count,
    failed_tables,
    or_log,           \* history: <<step, table, outcome>> of every call made for a table
    or_result,        \* "none" while running, then "true" or "false"
    \* ---- get_table_schema (one call) ----
    gs_pc,            \* "call", "done"
    gs_table,         \* the table of that name in the source schema
    gs_ran,           \* history: the queries the call issued, in order
    gs_columns,       \* the returned columns
    gs_primary_keys,  \* the returned primary_keys
    gs_foreign_keys,  \* the returned foreign_keys
    gs_outcomes,      \* history: what the connection and each query gave
    \* ---- clean_mariadb_tables (two calls in succession) ----
    cl_pc,            \* "first", "second", "done"
    cl_tables,        \* the names of the tables of the target database
    cl_case_sensitive,\* the target server compares table names case-sensitively
    cl_before,        \* history: the tables before the first call
    cl_log,           \* history: the statements each call issued, in order, with their outcome
    cl_dropped,       \* history: the tables each call dropped
    cl_session,       \* history: the session each call left (open or not, foreign-key checks)
    cl_returned,      \* history: the returned bool of each call
    \* ---- the statements the operations issue on the source ----
    sa_db,            \* the source database: the rows of each of its tables
    sa_initial,       \* history: the source database before the first operation
    sa_log,           \* history: <<operation, table, statements issued>> of every operation run
    \* ---- page normalisation: preprocess_data, then the page insert's conversion ----
    nm_pc,            \* "call", "done"
    nm_column,        \* the column of the fetched page: name, dtype and values
    nm_strict,        \* history: the date parser took one format for the whole column
    nm_row,           \* the values of the column as handed to the driver
    \* ---- the validate action of main ----
    mn_pc,            \* "check", "migrate", "validate", "done", "exit"
    mn_source,        \* the tables get_mssql_tables lists
    mn_target,        \* the names of the tables of the target
    mn_missing,       \* missing_tables
    mn_statements,    \* history: the statements issued on the target, <<verb, table>>
    \* ---- the cached source engine: create_mssql_engine ----
    en_pc,            \* "ready"
    en_config,        \* mssql_config: whether it names a server, and the authentication
    mssql_engine,     \* self.mssql_engine: None or the engine
    en_calls          \* history: outcome and returned value of every call

mtVars == <<mt_pc, mt_type, mt_length, mt_precision, mt_scale, mt_out>>
insVars == <<ins_pc, ins_df, ins_fail, ins_calls, ins_ok>>
fbVars == <<fb_pc, fb_df, fb_pos, fb_attempted, success_count, error_count, fb_ok>>
trVars == <<pc, source, batch_size, total_records, offset, migrated_count,
            batch_number, table, txn, conn_open, result, pages, inserted,
            checkpoints, failure, target_calls>>
ctVars == <<ct_pc, ct_columns, ct_primary_keys, ct_target, ct_prior,
            ct_injected, ct_raised, ct_returned, ct_after>>
vaVars == <<va_pc, va_todo, va_data, va_names, va_raised, va_results,
            overall_success>>
orVars == <<or_pc, source_tables, all_tables, or_queue, structure_success_count,
            data_success_count, failed_tables, or_log, or_result>>
gsVars == <<gs_pc, gs_table, gs_ran, gs_columns, gs_primary_keys, gs_foreign_keys,
           gs_outcomes>>
clVars == <<cl_pc, cl_tables, cl_case_sensitive, cl_before, cl_log, cl_dropped,
            cl_session, cl_returned>>
saVars == <<sa_db, sa_initial, sa_log>>
nmVars == <<nm_pc, nm_column, nm_strict, nm_row>>
mnVars == <<mn_pc, mn_source, mn_target, mn_missing, mn_statements>>
enVars == <<en_pc, en_config, mssql_engine, en_calls>>
vars == <<mtVars, insVars, fbVars, trVars, ctVars, vaVars, orVars, gsVars,
         clVars, saVars, nmVars, mnVars, enVars>>

-----------------------------------------------------------------------------
(* Python values *)

\* Optional[int]: None is the empty tuple, an int v is <<v>>.
None == <<>>

Some(v) == <<v>>

\* Python truth value of an Optional[int]: None and 0 are false.
Truthy(x) == x /= None /\ x[1] /= 0

\* ceil(a / b) for a >= 0, b >= 1
CeilDiv(a, b) == (a + b - 1) \div b

Min(a, b) == IF a <= b THEN a ELSE b

\* s[lo..hi] as Python slices a list: positions past the end are dropped.
Slice(s, lo, hi) == SubSeq(s, lo, Min(hi, Len(s)))

\* str.lower() on ASCII letters, character by character.
UpperChars == <<"A","B","C","D","E","F","G","H","I","J","K","L","M",
                "N","O","P","Q","R","S","T","U","V","W","X","Y","Z">>

LowerChars == <<"a","b","c","d","e","f","g","h","i","j","k","l","m",
                "n","o","p","q","r","s","t","u","v","w","x","y","z">>

LowerChar(c) ==
    IF \E i \in 1..Len(UpperChars) : UpperChars[i] = c
    THEN LowerChars[CHOOSE i \in 1..Len(UpperChars) : UpperChars[i] = c]
    ELSE c

\* A lower() that leaves the name as it is.
Lower_identity(name) == name

Lower(name) == [i \in 1..Len(name) |-> LowerChar(name[i])]

-----------------------------------------------------------------------------
(* Type mapper: convert_datatype *)

\* self.datatype_mapping, as <<key, value>> pairs in the order of the dict literal.
datatype_mapping == <<
    <<<<"i","n","t">>, "INT">>,
    <<<<"b","i","g","i","n","t">>, "BIGINT">>,
    <<<<"s","m","a","l","l","i","n","t">>, "SMALLINT">>,
    <<<<"t","i","n","y","i","n","t">>, "TINYINT">>,
    <<<<"b","i","t">>, "BOOLEAN">>,
    <<<<"d","e","c","i","m","a","l">>, "DECIMAL">>,
    <<<<"n","u","m","e","r","i","c">>, "DECIMAL">>,
    <<<<"m","o","n","e","y">>, "DECIMAL(19,4)">>,
    <<<<"f","l","o","a","t">>, "DOUBLE">>,
    <<<<"r","e","a","l">>, "FLOAT">>,
    <<<<"d","a","t","e","t","i","m","e">>, "DATETIME">>,
    <<<<"d","a","t","e","t","i","m","e","2">>, "DATETIME">>,
    <<<<"d","a","t","e">>, "DATE">>,
    <<<<"t","i","m","e">>, "TIME">>,
    <<<<"v","a","r","c","h","a","r">>, "VARCHAR">>,
    <<<<"n","v","a","r","c","h","a","r">>, "VARCHAR">>,
    <<<<"c","h","a","r">>, "CHAR">>,
    <<<<"n","c","h","a","r">>, "CHAR">>,
    <<<<"t","e","x","t">>, "TEXT">>,
    <<<<"n","t","e","x","t">>, "LONGTEXT">>,
    <<<<"u","n","i","q","u","e","i","d","e","n","t","i","f","i","e","r">>, "VARCHAR(36)">> >>

\* dict.get(key, default)
DictGet(d, key, default) ==
    IF \E i \in 1..Len(d) : d[i][1] = key
    THEN d[CHOOSE i \in 1..Len(d) : d[i][1] = key][2]
    ELSE default

DecimalNames == {<<"d","e","c","i","m","a","l">>, <<"n","u","m","e","r","i","c">>}

VarcharNames == {<<"v","a","r","c","h","a","r">>, <<"n","v","a","r","c","h","a","r">>}

CharNames == {<<"c","h","a","r">>, <<"n","c","h","a","r">>}

\* The largest length kept as VARCHAR (larger ones become TEXT).
VarcharLimit == 16383

\* The largest length kept as CHAR (larger ones become VARCHAR).
CharLimit == 255

\* f'{base}({a})' and f'{base}({a},{b})'
Fmt1(base, a) == base \o "(" \o ToString(a) \o ")"

Fmt2(base, a, b) == base \o "(" \o ToString(a) \o "," \o ToString(b) \o ")"

\* The decimal branch testing the truth value of scale too: a scale of 0 counts as absent.
DecimalType_scaleTruthy(precision, scale) ==
    IF Truthy(precision) /\ Truthy(scale)
    THEN Fmt2("DECIMAL", precision[1], scale[1])
    ELSE "DECIMAL(10,2)"

\* The decimal / numeric branch.
DecimalType(precision, scale) ==
    IF Truthy(precision) /\ scale /= None
    THEN Fmt2("DECIMAL", precision[1], scale[1])
    ELSE "DECIMAL(10,2)"

\* The varchar branch with the limit off by one: a length equal to the limit becomes TEXT.
VarcharType_limitOff(length) ==
    IF Truthy(length) /\ length[1] > 0
    THEN IF length[1] >= VarcharLimit THEN "TEXT" ELSE Fmt1("VARCHAR", length[1])
    ELSE "TEXT"

\* The varchar / nvarchar branch.
VarcharType(length) ==
    IF Truthy(length) /\ length[1] > 0
    THEN IF length[1] > VarcharLimit THEN "TEXT" ELSE Fmt1("VARCHAR", length[1])
    ELSE "TEXT"

\* The char branch with the limit off by one: a length equal to the limit becomes VARCHAR.
CharType_limitOff(length) ==
    IF Truthy(length) /\ length[1] > 0
    THEN IF length[1] >= CharLimit
         THEN Fmt1("VARCHAR", length[1])
         ELSE Fmt1("CHAR", length[1])
    ELSE "CHAR(1)"

\* The char / nchar branch.
CharType(length) ==
    IF Truthy(length) /\ length[1] > 0
    THEN IF length[1] > CharLimit
         THEN Fmt1("VARCHAR", length[1])
         ELSE Fmt1("CHAR", length[1])
    ELSE "CHAR(1)"

\* The last branch with an empty default for a name the table does not hold.
MappedType_emptyDefault(mssql_type_lower) == DictGet(datatype_mapping, mssql_type_lower, "")

\* The last branch: the static table, TEXT for a name it does not hold.
MappedType(mssql_type_lower) == DictGet(datatype_mapping, mssql_type_lower, "TEXT")

convert_datatype(mssql_type, length, precision, scale) ==
    LET mssql_type_lower == Lower(mssql_type) IN
    IF mssql_type_lower \in DecimalNames THEN DecimalType(precision, scale)
    ELSE IF mssql_type_lower \in VarcharNames THEN VarcharType(length)
    ELSE IF mssql_type_lower \in CharNames THEN CharType(length)
    ELSE MappedType(mssql_type_lower)

\* ---- one call of convert_datatype on an input drawn from bounded sets ----

\* Small integers tried for length, precision and scale: -MaxSmall..MaxSmall.
MaxSmall == 1

\* Type names the static table does not hold (the last one is the empty name).
UnknownNames == {
    <<"x","m","l">>,
    <<"i","m","a","g","e">>,
    <<"s","m","a","l","l","d","a","t","e","t","i","m","e">>,
    <<"v","a","r","b","i","n","a","r","y">>,
    <<"s","q","l","_","v","a","r","i","a","n","t">>,
    <<>> }

KnownNames == {datatype_mapping[i][1] : i \in 1..Len(datatype_mapping)}

UpperChar(c) ==
    IF \E i \in 1..Len(LowerChars) : LowerChars[i] = c
    THEN UpperChars[CHOOSE i \in 1..Len(LowerChars) : LowerChars[i] = c]
    ELSE c

\* A name in capitals, and with a capital first letter.
Upper(name) == [i \in 1..Len(name) |-> UpperChar(name[i])]

Capitalized(name) == [i \in 1..Len(name) |-> IF i = 1 THEN UpperChar(name[i]) ELSE name[i]]

TypeNames ==
    LET base == KnownNames \cup UnknownNames
    IN  base \cup {Upper(n) : n \in base} \cup {Capitalized(n) : n \in base}

SmallInts == (0 - MaxSmall)..MaxSmall

Lengths ==
    {None} \cup {Some(v) : v \in SmallInts
                              \cup ((CharLimit - 1)..(CharLimit + 1))
                              \cup ((VarcharLimit - 1)..(VarcharLimit + 1))
                              \cup {50, 300, 20000}}

Precisions == {None} \cup {Some(v) : v \in SmallInts \cup {10}}

Scales == {None} \cup {Some(v) : v \in SmallInts \cup {2}}

MtInit ==
    /\ mt_pc = "call"
    /\ mt_type \in TypeNames
    /\ mt_length \in Lengths
    /\ mt_precision \in Precisions
    /\ mt_scale \in Scales
    /\ mt_out = ""

MtIdle ==
    /\ mt_pc = "idle"
    /\ mt_type = <<>>
    /\ mt_length = None
    /\ mt_precision = None
    /\ mt_scale = None
    /\ mt_out = ""

MapType ==
    /\ mt_pc = "call"
    /\ mt_out' = convert_datatype(mt_type, mt_length, mt_precision, mt_scale)
    /\ mt_pc' = "done"
    /\ UNCHANGED <<mt_type, mt_length, mt_precision, mt_scale>>
    /\ UNCHANGED <<insVars, fbVars, trVars, ctVars, vaVars, orVars, gsVars, clVars, saVars, nmVars, mnVars, enVars>>

-----------------------------------------------------------------------------
(* Page insert: insert_batch_to_mariadb *)

\* A page of at most this many rows goes to the driver in one executemany call.
DirectLimit == 100

\* chunk_size: the rows of one executemany call of a larger page.
ChunkSize == 100

\* The rows 1..n, a page or a table of n rows.
Rows(n) == [i \in 1..n |-> i]

\* The page insert whose chunks are one row short: the slice ends before the
\* last row of each chunk.
InsertCalls_shortChunk(df) ==
    IF Len(df) = 0 THEN <<>>
    ELSE IF Len(df) = 1 THEN << [kind |-> "execute", rows |-> <<df[1]>>] >>
    ELSE IF Len(df) <= DirectLimit THEN << [kind |-> "executemany", rows |-> df] >>
    ELSE [k \in 1..CeilDiv(Len(df), ChunkSize) |->
            [kind |-> "executemany",
             rows |-> Slice(df, (k - 1) * ChunkSize + 1, k * ChunkSize - 1)]]

\* The driver calls a page asks for, in order, when none of them fails:
\* cursor.execute for one row, cursor.executemany for up to DirectLimit rows,
\* one cursor.executemany per chunk of chunk_size rows otherwise.
InsertCalls(df) ==
    IF Len(df) = 0 THEN <<>>
    ELSE IF Len(df) = 1 THEN << [kind |-> "execute", rows |-> <<df[1]>>] >>
    ELSE IF Len(df) <= DirectLimit THEN << [kind |-> "executemany", rows |-> df] >>
    ELSE [k \in 1..CeilDiv(Len(df), ChunkSize) |->
            [kind |-> "executemany",
             rows |-> Slice(df, (k - 1) * ChunkSize + 1, k * ChunkSize)]]

RECURSIVE RowsOfCalls(_)
\* The rows of a sequence of driver calls, in order.
RowsOfCalls(calls) ==
    IF calls = <<>> THEN <<>>
    ELSE RowsOfCalls(SubSeq(calls, 1, Len(calls) - 1)) \o calls[Len(calls)].rows

\* The calls issued when call number fail raises (fail = 0: none raises): the
\* failing call is the last one issued.
IssuedCalls(df, fail) ==
    IF fail = 0 THEN InsertCalls(df) ELSE SubSeq(InsertCalls(df), 1, fail)

\* The rows the driver accepted: those of the calls before the failing one.
AcceptedRows(df, fail) ==
    IF fail = 0 THEN RowsOfCalls(InsertCalls(df))
    ELSE RowsOfCalls(SubSeq(InsertCalls(df), 1, fail - 1))

\* The returned bool: True unless a driver call raised (both except clauses
\* return False).
InsertSucceeds(df, fail) == fail = 0

\* ---- one call of insert_batch_to_mariadb ----

\* The longest page tried.
MaxPage == 201

InsInit ==
    /\ ins_pc = "call"
    /\ ins_df \in {Rows(n) : n \in 0..MaxPage}
    /\ ins_fail = 0
    /\ ins_calls = <<>>
    /\ ins_ok = FALSE

InsIdle ==
    /\ ins_pc = "idle"
    /\ ins_df = <<>>
    /\ ins_fail = 0
    /\ ins_calls = <<>>
    /\ ins_ok = FALSE

InsertBatch ==
    /\ ins_pc = "call"
    /\ \E fail \in 0..Len(InsertCalls(ins_df)) :
          /\ ins_fail' = fail
          /\ ins_calls' = IssuedCalls(ins_df, fail)
          /\ ins_ok' = InsertSucceeds(ins_df, fail)
    /\ ins_pc' = "done"
    /\ UNCHANGED ins_df
    /\ UNCHANGED <<mtVars, fbVars, trVars, ctVars, vaVars, orVars, gsVars, clVars, saVars, nmVars, mnVars, enVars>>

-----------------------------------------------------------------------------
(* Row-level fallback: fallback_single_insert *)

\* The loop stops once error_count is larger than this.
ErrorCap == 10

\* The longest page tried.
MaxFallbackRows == 13

FbInit ==
    /\ fb_pc = "loop"
    /\ fb_df \in {Rows(n) : n \in 0..MaxFallbackRows}
    /\ fb_pos = 0
    /\ fb_attempted = <<>>
    /\ success_count = 0
    /\ error_count = 0
    /\ fb_ok = FALSE

FbIdle ==
    /\ fb_pc = "idle"
    /\ fb_df = <<>>
    /\ fb_pos = 0
    /\ fb_attempted = <<>>
    /\ success_count = 0
    /\ error_count = 0
    /\ fb_ok = FALSE

\* The break taken already when error_count reaches the cap.
TooManyErrors_atCap(errors) == errors >= ErrorCap

\* After a failed row: break (and return) when there are too many errors.
TooManyErrors(errors) == errors > ErrorCap

\* The value returned after the loop.
FallbackResult(errors) == errors = 0

\* One iteration whose cursor.execute succeeds.
FallbackRowOk ==
    /\ fb_pc = "loop"
    /\ fb_pos < Len(fb_df)
    /\ fb_pos' = fb_pos + 1
    /\ fb_attempted' = Append(fb_attempted, fb_df[fb_pos + 1])
    /\ success_count' = success_count + 1
    /\ UNCHANGED <<fb_pc, fb_df, error_count, fb_ok>>
    /\ UNCHANGED <<mtVars, insVars, trVars, ctVars, vaVars, orVars, gsVars, clVars, saVars, nmVars, mnVars, enVars>>

\* One iteration whose cursor.execute raises mysql.connector.Error.
FallbackRowError ==
    /\ fb_pc = "loop"
    /\ fb_pos < Len(fb_df)
    /\ fb_pos' = fb_pos + 1
    /\ fb_attempted' = Append(fb_attempted, fb_df[fb_pos + 1])
    /\ error_count' = error_count + 1
    /\ IF TooManyErrors(error_count')
       THEN /\ fb_pc' = "done"
            /\ fb_ok' = FallbackResult(error_count')
       ELSE UNCHANGED <<fb_pc, fb_ok>>
    /\ UNCHANGED <<fb_df, success_count>>
    /\ UNCHANGED <<mtVars, insVars, trVars, ctVars, vaVars, orVars, gsVars, clVars, saVars, nmVars, mnVars, enVars>>

\* The loop ran out of rows: return.
FallbackReturn ==
    /\ fb_pc = "loop"
    /\ fb_pos = Len(fb_df)
    /\ fb_pc' = "done"
    /\ fb_ok' = FallbackResult(error_count)
    /\ UNCHANGED <<fb_df, fb_pos, fb_attempted, success_count, error_count>>
    /\ UNCHANGED <<mtVars, insVars, trVars, ctVars, vaVars, orVars, gsVars, clVars, saVars, nmVars, mnVars, enVars>>

-----------------------------------------------------------------------------
(* Table transfer: migrate_table_data *)

\* A commit is issued inside the loop after every CommitEvery-th page.
CommitEvery == 50

\* A page query that forgets the offset: every page is the first one.
FetchPage_noOffset(src, off, size) == Slice(src, 1, size)

\* pd.read_sql of "ORDER BY <primary key> OFFSET off ROWS FETCH NEXT size ROWS
\* ONLY" on a table whose rows, in primary-key order, are src.
FetchPage(src, off, size) == Slice(src, off + 1, off + size)

\* A loop that commits after every page.
CommitsAfterPage_everyPage(batch, off, size, total) == TRUE

\* The condition under which the loop commits after a successful page.
CommitsAfterPage(batch, off, size, total) ==
    batch % CommitEvery = 0 \/ off + size >= total

\* An offset that grows by one row per page.
NextOffset_oneRow(off, size) == off + 1

\* offset += self.batch_size
NextOffset(off, size) == off + size

\* conn.commit(): <<table, txn>> after it; the staged rows become visible.
AfterCommit(tbl, staged) == <<tbl \o staged, <<>>>>

\* A rollback that keeps the staged rows, as a commit would.
AfterRollback_commits(tbl, staged) == <<tbl \o staged, <<>>>>

\* conn.rollback(), or conn.close() with a transaction open: <<table, txn>>
\* after it; the staged rows are discarded.
AfterRollback(tbl, staged) == <<tbl, <<>>>>

\* ---- one call of migrate_table_data on a freshly created target table ----

\* The largest source table, and the largest small batch size, tried.
MaxRows == 102

MaxBatch == 2

BatchSizes == (1..MaxBatch) \cup {ChunkSize, ChunkSize + 1}

\* <<rows of the source table, batch size>>; the last pair is the worked
\* example of the count round trip.
TransferInputs ==
    {<<n, b>> : n \in 0..MaxRows, b \in BatchSizes} \cup {<<250, 100>>}

\* A transfer that commits before it closes the connection of an empty table.
EmptyTableCalls_commits == <<"commit", "close">>

\* The calls on the target connection when the count is zero: the connection
\* is closed and nothing else.
EmptyTableCalls == <<"close">>

TrInit ==
    /\ pc = "start"
    /\ \E in \in TransferInputs :
          /\ source = Rows(in[1])
          /\ batch_size = in[2]
    /\ total_records = 0
    /\ offset = 0
    /\ migrated_count = 0
    /\ batch_number = 0
    /\ table = <<>>
    /\ txn = <<>>
    /\ conn_open = FALSE
    /\ result = "none"
    /\ pages = <<>>
    /\ inserted = <<>>
    /\ checkpoints = <<>>
    /\ failure = ""
    /\ target_calls = <<>>

\* create_mssql_engine or connect_mariadb returned nothing: return False at once.
StartNoConnection ==
    /\ pc = "start"
    /\ \E mariadb_ok \in BOOLEAN :
          /\ conn_open' = mariadb_ok
          /\ pc' = "done"
          /\ result' = "false"
          /\ failure' = IF mariadb_ok THEN "no source engine" ELSE "no target connection"
    /\ UNCHANGED <<source, batch_size, total_records, offset, migrated_count,
                   batch_number, table, txn, pages, inserted, checkpoints>>
    /\ UNCHANGED target_calls
    /\ UNCHANGED <<mtVars, insVars, fbVars, ctVars, vaVars, orVars, gsVars, clVars, saVars, nmVars, mnVars, enVars>>

\* Both connections are there but the count query raises: the outer handler.
StartCountFails ==
    /\ pc = "start"
    /\ pc' = "done"
    /\ result' = "false"
    /\ failure' = "count"
    /\ table' = AfterRollback(table, txn)[1]
    /\ txn' = AfterRollback(table, txn)[2]
    /\ conn_open' = FALSE
    /\ UNCHANGED <<source, batch_size, total_records, offset, migrated_count,
                   batch_number, pages, inserted, checkpoints>>
    /\ target_calls' = target_calls \o <<"rollback", "close">>
    /\ UNCHANGED <<mtVars, insVars, fbVars, ctVars, vaVars, orVars, gsVars, clVars, saVars, nmVars, mnVars, enVars>>

\* Both connections are there and the count is read: return True for an empty
\* table, enter the loop otherwise.
Start ==
    /\ pc = "start"
    /\ total_records' = Len(source)
    /\ IF total_records' = 0
       THEN /\ pc' = "done"
            /\ result' = "true"
            /\ conn_open' = FALSE
       ELSE /\ pc' = "loop"
            /\ result' = "none"
            /\ conn_open' = TRUE
    /\ UNCHANGED <<source, batch_size, offset, migrated_count, batch_number,
                   table, txn, pages, inserted, checkpoints, failure>>
    /\ target_calls' = IF total_records' = 0 THEN target_calls \o EmptyTableCalls
                       ELSE target_calls
    /\ UNCHANGED <<mtVars, insVars, fbVars, ctVars, vaVars, orVars, gsVars, clVars, saVars, nmVars, mnVars, enVars>>

\* One iteration whose pd.read_sql raises: rollback, close, return False.
PageFetchFails ==
    /\ pc = "loop"
    /\ offset < total_records
    /\ batch_number' = batch_number + 1
    /\ pc' = "done"
    /\ result' = "false"
    /\ failure' = "fetch"
    /\ table' = AfterRollback(table, txn)[1]
    /\ txn' = AfterRollback(table, txn)[2]
    /\ conn_open' = FALSE
    /\ UNCHANGED <<source, batch_size, total_records, offset, migrated_count,
                   pages, inserted, checkpoints>>
    /\ target_calls' = target_calls \o <<"rollback", "close">>
    /\ UNCHANGED <<mtVars, insVars, fbVars, ctVars, vaVars, orVars, gsVars, clVars, saVars, nmVars, mnVars, enVars>>

\* A transfer that reports success after a page insert returned False.
FailedPage_reportsSuccess == [pc |-> "done", result |-> "true", conn_open |-> FALSE]

\* Where the transfer stands after the else branch of the page insert: the
\* target connection is closed and False is returned from inside the loop.
FailedPage == [pc |-> "done", result |-> "false", conn_open |-> FALSE]

\* One iteration whose page insert returns False (driver call number fail
\* raised): rollback, close, return False.
PageInsertFails ==
    /\ pc = "loop"
    /\ offset < total_records
    /\ LET df == FetchPage(source, offset, batch_size) IN
       /\ df /= <<>>
       /\ \E fail \in 1..Len(InsertCalls(df)) :
             /\ ~InsertSucceeds(df, fail)
             /\ inserted' = inserted \o AcceptedRows(df, fail)
             /\ table' = AfterRollback(table, txn \o AcceptedRows(df, fail))[1]
             /\ txn' = AfterRollback(table, txn \o AcceptedRows(df, fail))[2]
       /\ pages' = Append(pages, <<offset, df>>)
    /\ batch_number' = batch_number + 1
    /\ pc' = FailedPage.pc
    /\ result' = FailedPage.result
    /\ failure' = "insert"
    /\ conn_open' = FailedPage.conn_open
    /\ UNCHANGED <<source, batch_size, total_records, offset, migrated_count,
                   checkpoints>>
    /\ target_calls' = target_calls \o <<"insert", "rollback", "close">>
    /\ UNCHANGED <<mtVars, insVars, fbVars, ctVars, vaVars, orVars, gsVars, clVars, saVars, nmVars, mnVars, enVars>>

\* One iteration whose page insert returns True; the commit it may issue
\* succeeds (commit_ok) or raises. An empty page leaves the loop.
Page ==
    /\ pc = "loop"
    /\ offset < total_records
    /\ batch_number' = batch_number + 1
    /\ LET df == FetchPage(source, offset, batch_size) IN
       IF df = <<>>
       THEN /\ pc' = "commit"
            /\ UNCHANGED <<offset, migrated_count, table, txn, conn_open, result,
                           pages, inserted, checkpoints, failure>>
       ELSE /\ InsertSucceeds(df, 0)
            /\ pages' = Append(pages, <<offset, df>>)
            /\ inserted' = inserted \o AcceptedRows(df, 0)
            /\ migrated_count' = migrated_count + Len(df)
            /\ IF CommitsAfterPage(batch_number', offset, batch_size, total_records)
               THEN \E commit_ok \in BOOLEAN :
                       IF commit_ok
                       THEN /\ table' = AfterCommit(table, txn \o AcceptedRows(df, 0))[1]
                            /\ txn' = AfterCommit(table, txn \o AcceptedRows(df, 0))[2]
                            /\ checkpoints' = Append(checkpoints, Len(pages'))
                            /\ offset' = NextOffset(offset, batch_size)
                            /\ pc' = IF offset' < total_records THEN "loop" ELSE "commit"
                            /\ UNCHANGED <<conn_open, result, failure>>
                       ELSE /\ table' = AfterRollback(table, txn \o AcceptedRows(df, 0))[1]
                            /\ txn' = AfterRollback(table, txn \o AcceptedRows(df, 0))[2]
                            /\ pc' = "done"
                            /\ result' = "false"
                            /\ failure' = "commit"
                            /\ conn_open' = FALSE
                            /\ UNCHANGED <<checkpoints, offset>>
               ELSE /\ txn' = txn \o AcceptedRows(df, 0)
                    /\ offset' = NextOffset(offset, batch_size)
                    /\ pc' = IF offset' < total_records THEN "loop" ELSE "commit"
                    /\ UNCHANGED <<table, checkpoints, conn_open, result, failure>>
    /\ UNCHANGED <<source, batch_size, total_records>>
    /\ target_calls' = target_calls \o
         (IF pages' = pages THEN <<>>
          ELSE IF failure' = "commit" THEN <<"insert", "commit", "rollback", "close">>
          ELSE IF checkpoints' /= checkpoints THEN <<"insert", "commit">>
          ELSE <<"insert">>)
    /\ UNCHANGED <<mtVars, insVars, fbVars, ctVars, vaVars, orVars, gsVars, clVars, saVars, nmVars, mnVars, enVars>>

\* After the loop: the final commit, then close and return True; a commit that
\* raises is answered by rollback, close and return False.
FinalCommit ==
    /\ pc = "commit"
    /\ \E commit_ok \in BOOLEAN :
          IF commit_ok
          THEN /\ table' = AfterCommit(table, txn)[1]
               /\ txn' = AfterCommit(table, txn)[2]
               /\ result' = "true"
               /\ UNCHANGED failure
          ELSE /\ table' = AfterRollback(table, txn)[1]
               /\ txn' = AfterRollback(table, txn)[2]
               /\ result' = "false"
               /\ failure' = "final commit"
    /\ pc' = "done"
    /\ conn_open' = FALSE
    /\ UNCHANGED <<source, batch_size, total_records, offset, migrated_count,
                   batch_number, pages, inserted, checkpoints>>
    /\ target_calls' = target_calls \o
         (IF result' = "true" THEN <<"commit", "close">>
          ELSE <<"commit", "rollback", "close">>)
    /\ UNCHANGED <<mtVars, insVars, fbVars, ctVars, vaVars, orVars, gsVars, clVars, saVars, nmVars, mnVars, enVars>>

TrIdle ==
    /\ pc = "idle"
    /\ source = <<>>
    /\ batch_size = 1
    /\ total_records = 0
    /\ offset = 0
    /\ migrated_count = 0
    /\ batch_number = 0
    /\ table = <<>>
    /\ txn = <<>>
    /\ conn_open = FALSE
    /\ result = "none"
    /\ pages = <<>>
    /\ inserted = <<>>
    /\ checkpoints = <<>>
    /\ failure = ""
    /\ target_calls = <<>>

-----------------------------------------------------------------------------
(* Structure synchronizer: create_mariadb_table *)

\* A column as get_table_schema returns it:
\* <<name, data type, length, precision, scale, nullable>>.
\* The clause of one column: name, mapped type, NULL / NOT NULL.
ColumnDefinition(col) ==
    <<col[1],
      convert_datatype(col[2], col[3], col[4], col[5]),
      IF col[6] = "YES" THEN "NULL" ELSE "NOT NULL">>

col_definitions(columns) == [i \in 1..Len(columns) |-> ColumnDefinition(columns[i])]

\* No table of that name in the target database.
NoTable ==
    [exists |-> FALSE, columns |-> <<>>, primary_key |-> <<>>, rows |-> <<>>,
     referenced |-> FALSE]

\* DROP TABLE IF EXISTS: the server refuses to drop a table that a foreign key
\* of another table references (foreign-key checks are on in this session).
DropAccepted(target) == ~(target.exists /\ target.referenced)

\* CREATE TABLE: the server refuses a name that exists, an empty column list
\* and a primary key on a column the table does not have.
CreateAccepted(target, columns, primary_keys) ==
    /\ ~target.exists
    /\ columns /= <<>>
    /\ \A i \in 1..Len(primary_keys) :
          \E j \in 1..Len(columns) : columns[j][1] = primary_keys[i]

\* A recreation that keeps the rows of the table it replaces.
Recreated_keepsRows(old, columns, primary_keys) ==
    [exists |-> TRUE, columns |-> col_definitions(columns),
     primary_key |-> primary_keys, rows |-> old.rows, referenced |-> FALSE]

\* The table once DROP TABLE IF EXISTS and CREATE TABLE were both accepted:
\* the new columns and no row, whatever the table old was.
Recreated(old, columns, primary_keys) ==
    [exists |-> TRUE, columns |-> col_definitions(columns),
     primary_key |-> primary_keys, rows |-> <<>>, referenced |-> FALSE]

\* The statements of one call, in order; error names the one a driver error
\* hits ("none": no driver error).
StatementErrors == {"none", "drop", "create", "commit", "describe"}

\* One call: the returned bool, the target table after it and the statements
\* that raised.
CreateOutcome(target, columns, primary_keys, connected, error) ==
    IF ~connected
    THEN [ok |-> FALSE, target |-> target, raised |-> {"connect"}]
    ELSE
      LET dropped == error /= "drop" /\ DropAccepted(target)
          \* except: pass -- a failed drop is ignored
          t1 == IF dropped THEN NoTable ELSE target
          r1 == IF dropped THEN {} ELSE {"drop"}
          created == error /= "create" /\ CreateAccepted(t1, columns, primary_keys)
          \* the table definition is durable as soon as CREATE TABLE returns
          t2 == Recreated(target, columns, primary_keys)
      IN  IF ~created
          THEN [ok |-> FALSE, target |-> t1, raised |-> r1 \cup {"create"}]
          ELSE IF error \in {"commit", "describe"}
          THEN [ok |-> FALSE, target |-> t2, raised |-> r1 \cup {error}]
          ELSE [ok |-> TRUE, target |-> t2, raised |-> r1]

\* ---- two calls in succession on inputs drawn from bounded sets ----

ColId == <<"id", <<"i","n","t">>, None, Some(10), Some(0), "NO">>

ColName == <<"name", <<"n","v","a","r","c","h","a","r">>, Some(50), None, None, "YES">>

ColAmount == <<"amount", <<"D","e","c","i","m","a","l">>, None, Some(10), Some(2), "YES">>

ColumnLists == {<<>>, <<ColId>>, <<ColName>>, <<ColId, ColName>>, <<ColId, ColName, ColAmount>>}

PrimaryKeyLists == {<<>>, <<"id">>}

\* Rows of the table that exists before the first call: 0..MaxPriorRows.
MaxPriorRows == 2

PriorTables ==
    {NoTable} \cup
    {[exists |-> TRUE, columns |-> col_definitions(c), primary_key |-> <<>>,
      rows |-> Rows(n), referenced |-> r] :
        c \in ColumnLists \ {<<>>}, n \in 0..MaxPriorRows, r \in BOOLEAN}

CtInit ==
    /\ ct_pc = "first"
    /\ ct_columns \in ColumnLists
    /\ ct_primary_keys \in PrimaryKeyLists
    /\ ct_target \in PriorTables
    /\ ct_prior = ct_target
    /\ ct_injected = <<>>
    /\ ct_raised = <<>>
    /\ ct_returned = <<>>
    /\ ct_after = <<>>

CtIdle ==
    /\ ct_pc = "idle"
    /\ ct_columns = <<>>
    /\ ct_primary_keys = <<>>
    /\ ct_target = NoTable
    /\ ct_prior = NoTable
    /\ ct_injected = <<>>
    /\ ct_raised = <<>>
    /\ ct_returned = <<>>
    /\ ct_after = <<>>

CreateTable ==
    /\ ct_pc \in {"first", "second"}
    /\ \E connected \in BOOLEAN, error \in StatementErrors :
         LET o == CreateOutcome(ct_target, ct_columns, ct_primary_keys, connected, error)
         IN  /\ ct_target' = o.target
             /\ ct_injected' = Append(ct_injected, <<connected, error>>)
             /\ ct_raised' = Append(ct_raised, o.raised)
             /\ ct_returned' = Append(ct_returned, o.ok)
             /\ ct_after' = Append(ct_after, o.target)
    /\ ct_pc' = IF ct_pc = "first" THEN "second" ELSE "done"
    /\ UNCHANGED <<ct_columns, ct_primary_keys, ct_prior>>
    /\ UNCHANGED <<mtVars, insVars, fbVars, trVars, vaVars, orVars, gsVars, clVars, saVars, nmVars, mnVars, enVars>>

-----------------------------------------------------------------------------
(* Validator: validate_migration_complete, validate_single_table *)

\* A table under validation has one column: its DATA_TYPE in the source, its
\* non-null values in the source (src) and in the target (tgt), row by row,
\* and whether the target table exists.  The tables of one run hold the same
\* column.

\* sample_size of validate_sample_data
SampleSize == 100

\* MIN and MAX of a column over its non-null values; both NULL on no row.
Extremes(vals) ==
    IF vals = <<>> THEN <<None, None>>
    ELSE <<Some(CHOOSE v \in {vals[i] : i \in 1..Len(vals)} :
                   \A i \in 1..Len(vals) : v <= vals[i]),
           Some(CHOOSE v \in {vals[i] : i \in 1..Len(vals)} :
                   \A i \in 1..Len(vals) : v >= vals[i])>>

\* The DATA_TYPE values the query of validate_extreme_values selects.
ExtremeTypes == {
    <<"i","n","t">>,
    <<"b","i","g","i","n","t">>,
    <<"d","e","c","i","m","a","l">>,
    <<"n","u","m","e","r","i","c">>,
    <<"f","l","o","a","t">>,
    <<"r","e","a","l">>,
    <<"m","o","n","e","y">> }

\* A sample check that compares the rows of the two samples.
validate_sample_data_byValue(src, tgt, error) ==
    IF error = "sample" THEN FALSE
    ELSE SubSeq(src, 1, Min(SampleSize, Len(src))) =
         SubSeq(tgt, 1, Min(SampleSize, Len(tgt)))

\* validate_sample_data: the two samples have the same number of rows.
validate_sample_data(src, tgt, error) ==
    IF error = "sample" THEN FALSE
    ELSE LET mssql_sample == Min(SampleSize, Len(src))
             mariadb_sample == Min(SampleSize, Len(tgt))
         IN  IF mssql_sample = 0 THEN TRUE ELSE mssql_sample = mariadb_sample

\* validate_extreme_values: MIN and MAX of every selected column are equal.
validate_extreme_values(data_type, src, tgt, error) ==
    IF error = "extreme" THEN FALSE
    ELSE LET numeric_columns == IF data_type \in ExtremeTypes THEN {1} ELSE {}
         IN  \A col \in numeric_columns : Extremes(src) = Extremes(tgt)

\* A consistency that leaves the extremes out.
Consistency_noExtremes(record_count_match, sample_data_match, extreme_values_match) ==
    record_count_match /\ sample_data_match

\* result['data_consistency']
Consistency(record_count_match, sample_data_match, extreme_values_match) ==
    record_count_match /\ sample_data_match /\ extreme_values_match

ValidationResult(count_match, mssql_count, mariadb_count, sample, extreme, consistent) ==
    [record_count_match |-> count_match, mssql_count |-> mssql_count,
     mariadb_count |-> mariadb_count, sample_data_match |-> sample,
     extreme_values_match |-> extreme, data_consistency |-> consistent]

\* The result dict as validate_single_table initialises it.
InitialResult == ValidationResult(FALSE, 0, 0, FALSE, FALSE, FALSE)

\* The literal result of the table Memo.
MemoResult == ValidationResult(TRUE, 0, 0, TRUE, TRUE, TRUE)

\* What can fail in one call of validate_single_table: a connection that
\* does not open, or a query that raises.
ValidationErrors == {"none", "connect_mssql", "connect_mariadb", "mssql_count",
                     "mariadb_count", "sample", "extreme"}

\* A validation that takes the counts of the source for those of the target
\* and reports every table consistent.
validate_single_table_assumesMatch(t, error) ==
    ValidationResult(TRUE, Len(t.src), Len(t.src), TRUE, TRUE, TRUE)

\* validate_single_table: the result dict it returns; error names the
\* connection or query that fails ("none": nothing fails).
validate_single_table(t, error) ==
    IF error \in {"connect_mssql", "connect_mariadb"} THEN InitialResult
    ELSE IF error = "mssql_count" THEN InitialResult
    ELSE IF error = "mariadb_count" \/ ~t.tgt_exists
    THEN [InitialResult EXCEPT !.mssql_count = Len(t.src)]
    ELSE
      LET mssql_count == Len(t.src)
          mariadb_count == Len(t.tgt)
          record_count_match == mssql_count = mariadb_count
          checked == record_count_match /\ mssql_count > 0
          sample_data_match ==
              IF checked THEN validate_sample_data(t.src, t.tgt, error) ELSE FALSE
          extreme_values_match ==
              IF checked THEN validate_extreme_values(t.data_type, t.src, t.tgt, error)
              ELSE FALSE
      IN  ValidationResult(record_count_match, mssql_count, mariadb_count,
                           sample_data_match, extreme_values_match,
                           Consistency(record_count_match, sample_data_match,
                                       extreme_values_match))

\* ---- one call of validate_migration_complete on bounded inputs ----

\* Rows of a validated table in the source: 0..MaxValRows.
MaxValRows == 3

\* The values of the column.
Values == {1, 2}

RECURSIVE SeqsUpTo(_, _)
SeqsUpTo(S, n) ==
    IF n = 0 THEN {<<>>}
    ELSE LET shorter == SeqsUpTo(S, n - 1)
         IN  shorter \cup {Append(s, v) : s \in shorter, v \in S}

ColumnValues == SeqsUpTo(Values, MaxValRows)

\* The column in the target after a migration of src: the same rows, one
\* value changed, the last row lost, or one row more.
TargetsOf(src) ==
    {src}
    \cup {[src EXCEPT ![i] = v] : i \in 1..Len(src), v \in Values}
    \cup (IF src = <<>> THEN {} ELSE {SubSeq(src, 1, Len(src) - 1)})
    \cup {Append(src, v) : v \in Values}

ValidatedTypes == {
    <<"i","n","t">>,
    <<"s","m","a","l","l","i","n","t">>,
    <<"t","i","n","y","i","n","t">>,
    <<"d","e","c","i","m","a","l">>,
    <<"n","v","a","r","c","h","a","r">> }

TableData ==
    UNION {
      {[data_type |-> ty, src |-> src, tgt |-> <<>>, tgt_exists |-> FALSE] :
          ty \in ValidatedTypes}
      \cup {[data_type |-> ty, src |-> src, tgt |-> tgt, tgt_exists |-> TRUE] :
               ty \in ValidatedTypes, tgt \in TargetsOf(src)}
      : src \in ColumnValues}

\* The result of get_mssql_tables (ORDER BY TABLE_NAME); empty when it fails.
ValidatedLists == {<<>>, <<"Factory">>, <<"Memo">>, <<"Factory", "Memo">>,
                   <<"Detail", "Factory">>, <<"Detail", "Factory", "Memo">>}

VaInit ==
    /\ va_pc = "tables"
    /\ va_todo \in ValidatedLists
    /\ va_data \in TableData
    /\ va_names = <<>>
    /\ va_raised = <<>>
    /\ va_results = <<>>
    /\ overall_success = TRUE

VaIdle ==
    /\ va_pc = "idle"
    /\ va_todo = <<>>
    /\ va_data = [data_type |-> <<>>, src |-> <<>>, tgt |-> <<>>, tgt_exists |-> FALSE]
    /\ va_names = <<>>
    /\ va_raised = <<>>
    /\ va_results = <<>>
    /\ overall_success = TRUE

\* One pass of the loop for a table other than Memo.
ValidateTable ==
    /\ va_pc = "tables"
    /\ va_todo /= <<>>
    /\ Head(va_todo) /= "Memo"
    /\ \E error \in ValidationErrors :
         LET table_result == validate_single_table(va_data, error)
         IN  /\ va_raised' = Append(va_raised, error)
             /\ va_results' = Append(va_results, table_result)
             /\ overall_success' =
                  IF ~table_result.data_consistency THEN FALSE ELSE overall_success
    /\ va_names' = Append(va_names, Head(va_todo))
    /\ va_todo' = Tail(va_todo)
    /\ UNCHANGED <<va_pc, va_data>>
    /\ UNCHANGED <<mtVars, insVars, fbVars, trVars, ctVars, orVars, gsVars, clVars, saVars, nmVars, mnVars, enVars>>

\* The pass of the loop for the table Memo: a literal result, no query.
ValidateMemo ==
    /\ va_pc = "tables"
    /\ va_todo /= <<>>
    /\ Head(va_todo) = "Memo"
    /\ va_raised' = Append(va_raised, "none")
    /\ va_results' = Append(va_results, MemoResult)
    /\ va_names' = Append(va_names, "Memo")
    /\ va_todo' = Tail(va_todo)
    /\ UNCHANGED <<va_pc, va_data, overall_success>>
    /\ UNCHANGED <<mtVars, insVars, fbVars, trVars, ctVars, orVars, gsVars, clVars, saVars, nmVars, mnVars, enVars>>

\* The loop is over: the report is written and the results are returned.
ValidationReturn ==
    /\ va_pc = "tables"
    /\ va_todo = <<>>
    /\ va_pc' = "done"
    /\ UNCHANGED <<va_todo, va_data, va_names, va_raised, va_results, overall_success>>
    /\ UNCHANGED <<mtVars, insVars, fbVars, trVars, ctVars, orVars, gsVars, clVars, saVars, nmVars, mnVars, enVars>>

-----------------------------------------------------------------------------
(* Orchestrator: migrate_full_database *)

table_order == <<"CompanyOwner", "Factory", "Announcement", "ViolationCase", "Memo",
                 "AllowRework", "Appeal", "IllegalProfit", "Inspection", "Detail">>

Range(s) == {s[i] : i \in 1..Len(s)}

\* The priority tables of the source in the order the source lists them.
PriorityTables_discoveryOrder(tables) ==
    SelectSeq(tables, LAMBDA tn : tn \in Range(table_order))

\* for table_name in table_order: if table_name in all_tables
PriorityTables(tables) == SelectSeq(table_order, LAMBDA tn : tn \in Range(tables))

\* [t for t in all_tables if t not in table_order]
RemainingTables(tables) == SelectSeq(tables, LAMBDA tn : tn \notin Range(table_order))

\* A return that asks for more than one transferred table.
MigrationSucceeded_two(count) == count > 1

\* return data_success_count > 0
MigrationSucceeded(count) == count > 0

BoolString(b) == IF b THEN "true" ELSE "false"

\* A run that keeps no name of a failed transfer.
RecordTransfer_forgets(failed, table_name, transferred) == failed

\* failed_tables after migrate_table_data returned for a table: the name is
\* appended when it returned False.
RecordTransfer(failed, table_name, transferred) ==
    IF transferred THEN failed ELSE Append(failed, table_name)

\* ---- one call on a source schema drawn from bounded sets ----

\* Table names of the source, in the order of ORDER BY TABLE_NAME: three of
\* the priority list and two others.
SourceNames == <<"CompanyOwner", "Detail", "Factory", "Log", "Zone">>

\* Tables of the source schema: at most MaxTables.
MaxTables == 3

SourceSchemas ==
    {SelectSeq(SourceNames, LAMBDA tn : tn \in S) :
        S \in {T \in SUBSET Range(SourceNames) : Cardinality(T) <= MaxTables}}

OrInit ==
    /\ or_pc = "start"
    /\ source_tables \in SourceSchemas
    /\ all_tables = <<>>
    /\ or_queue = <<>>
    /\ structure_success_count = 0
    /\ data_success_count = 0
    /\ failed_tables = <<>>
    /\ or_log = <<>>
    /\ or_result = "none"

OrIdle ==
    /\ or_pc = "idle"
    /\ source_tables = <<>>
    /\ all_tables = <<>>
    /\ or_queue = <<>>
    /\ structure_success_count = 0
    /\ data_success_count = 0
    /\ failed_tables = <<>>
    /\ or_log = <<>>
    /\ or_result = "none"

\* get_mssql_tables: the base tables, or [] when the engine or the query fails;
\* an empty list ends the run.
Discover ==
    /\ or_pc = "start"
    /\ \E ok \in BOOLEAN :
         LET tables == IF ok THEN source_tables ELSE <<>>
         IN  /\ all_tables' = tables
             /\ IF tables = <<>>
                THEN /\ or_pc' = "done"
                     /\ or_result' = "false"
                     /\ or_queue' = <<>>
                ELSE /\ or_pc' = "structure"
                     /\ or_result' = "none"
                     /\ or_queue' = PriorityTables(tables)
    /\ UNCHANGED <<source_tables, structure_success_count, data_success_count,
                   failed_tables, or_log>>
    /\ UNCHANGED <<mtVars, insVars, fbVars, trVars, ctVars, vaVars, gsVars, clVars, saVars, nmVars, mnVars, enVars>>

\* Structure phase, one table of the priority list: get_table_schema, then
\* create_mariadb_table unless there is no column.
StructureTable ==
    /\ or_pc = "structure"
    /\ or_queue /= <<>>
    /\ LET table_name == Head(or_queue) IN
       \E columns \in BOOLEAN, created \in BOOLEAN :
         IF ~columns
         THEN /\ or_log' = Append(or_log, <<"schema", table_name, FALSE>>)
              /\ UNCHANGED structure_success_count
         ELSE /\ or_log' = or_log \o <<<<"schema", table_name, TRUE>>,
                                       <<"create", table_name, created>>>>
              /\ structure_success_count' =
                   IF created THEN structure_success_count + 1
                   ELSE structure_success_count
    /\ or_queue' = Tail(or_queue)
    /\ UNCHANGED <<or_pc, source_tables, all_tables, data_success_count,
                   failed_tables, or_result>>
    /\ UNCHANGED <<mtVars, insVars, fbVars, trVars, ctVars, vaVars, gsVars, clVars, saVars, nmVars, mnVars, enVars>>

\* End of the structure phase: no structure created ends the run.
StructureDone ==
    /\ or_pc = "structure"
    /\ or_queue = <<>>
    /\ IF structure_success_count = 0
       THEN /\ or_pc' = "done"
            /\ or_result' = "false"
            /\ UNCHANGED or_queue
       ELSE /\ or_pc' = "transfer"
            /\ or_queue' = PriorityTables(all_tables)
            /\ UNCHANGED or_result
    /\ UNCHANGED <<source_tables, all_tables, structure_success_count,
                   data_success_count, failed_tables, or_log>>
    /\ UNCHANGED <<mtVars, insVars, fbVars, trVars, ctVars, vaVars, gsVars, clVars, saVars, nmVars, mnVars, enVars>>

\* Transfer phase, one table of the priority list: get_table_schema for the
\* primary key (logged as "keys"), then migrate_table_data.
TransferTable ==
    /\ or_pc = "transfer"
    /\ or_queue /= <<>>
    /\ LET table_name == Head(or_queue) IN
       \E columns \in BOOLEAN, transferred \in BOOLEAN :
         /\ or_log' = or_log \o <<<<"keys", table_name, columns>>,
                                  <<"transfer", table_name, transferred>>>>
         /\ failed_tables' = RecordTransfer(failed_tables, table_name, transferred)
         /\ data_success_count' =
              IF transferred THEN data_success_count + 1 ELSE data_success_count
    /\ or_queue' = Tail(or_queue)
    /\ UNCHANGED <<or_pc, source_tables, all_tables, structure_success_count,
                   or_result>>
    /\ UNCHANGED <<mtVars, insVars, fbVars, trVars, ctVars, vaVars, gsVars, clVars, saVars, nmVars, mnVars, enVars>>

TransferDone ==
    /\ or_pc = "transfer"
    /\ or_queue = <<>>
    /\ or_pc' = "remaining"
    /\ or_queue' = RemainingTables(all_tables)
    /\ UNCHANGED <<source_tables, all_tables, structure_success_count,
                   data_success_count, failed_tables, or_log, or_result>>
    /\ UNCHANGED <<mtVars, insVars, fbVars, trVars, ctVars, vaVars, gsVars, clVars, saVars, nmVars, mnVars, enVars>>

\* One table outside the priority list: structure, then transfer if the
\* structure was created.
RemainingTable ==
    /\ or_pc = "remaining"
    /\ or_queue /= <<>>
    /\ LET table_name == Head(or_queue) IN
       \E columns \in BOOLEAN, created \in BOOLEAN, transferred \in BOOLEAN :
         IF ~columns
         THEN /\ or_log' = Append(or_log, <<"schema", table_name, FALSE>>)
              /\ UNCHANGED <<structure_success_count, data_success_count, failed_tables>>
         ELSE IF ~created
         THEN /\ or_log' = or_log \o <<<<"schema", table_name, TRUE>>,
                                       <<"create", table_name, FALSE>>>>
              /\ UNCHANGED <<structure_success_count, data_success_count, failed_tables>>
         ELSE /\ or_log' = or_log \o <<<<"schema", table_name, TRUE>>,
                                       <<"create", table_name, TRUE>>,
                                       <<"transfer", table_name, transferred>>>>
              /\ structure_success_count' = structure_success_count + 1
              /\ failed_tables' = RecordTransfer(failed_tables, table_name, transferred)
              /\ data_success_count' =
                   IF transferred THEN data_success_count + 1 ELSE data_success_count
    /\ or_queue' = Tail(or_queue)
    /\ UNCHANGED <<or_pc, source_tables, all_tables, or_result>>
    /\ UNCHANGED <<mtVars, insVars, fbVars, trVars, ctVars, vaVars, gsVars, clVars, saVars, nmVars, mnVars, enVars>>

\* Report phase and return.
Report ==
    /\ or_pc = "remaining"
    /\ or_queue = <<>>
    /\ or_pc' = "done"
    /\ or_result' = BoolString(MigrationSucceeded(data_success_count))
    /\ or_log' = Append(or_log, <<"report", "", MigrationSucceeded(data_success_count)>>)
    /\ UNCHANGED <<source_tables, all_tables, or_queue, structure_success_count,
                   data_success_count, failed_tables>>
    /\ UNCHANGED <<mtVars, insVars, fbVars, trVars, ctVars, vaVars, gsVars, clVars, saVars, nmVars, mnVars, enVars>>

-----------------------------------------------------------------------------
(* Schema introspector: get_table_schema *)

\* A check that finds every table.
table_exists_always(count) == TRUE

\* table_exists = cursor.fetchone()[0] > 0
table_exists(count) == count > 0

\* The three column strategies, in the order of the code.
ColumnStrategies == <<"information_schema", "sys_columns", "probe">>

\* The columns the zero-row probe builds from cursor.description: the driver
\* gives the Python type of a column as type code, which is no key of
\* type_mapping, so every column is a varchar; it gives no display size; the
\* precision of a character column is its size.
ProbeColumn(col) ==
    <<col[1], <<"v","a","r","c","h","a","r">>, None,
      IF col[4] /= None THEN col[4] ELSE col[3], col[5], col[6]>>

ProbeColumns(columns) == [i \in 1..Len(columns) |-> ProbeColumn(columns[i])]

\* What a query of the call gives: rows, no row, or an exception.
QueryOutcomes == {"rows", "empty", "raise"}

\* A strategy that gives the columns behind the first one only.
StrategyColumns_dropsFirst(strategy, outcome, tbl) ==
    IF outcome /= "rows" THEN <<>> ELSE Tail(tbl.columns)

\* The column list a strategy gives for its outcome.
StrategyColumns(strategy, outcome, tbl) ==
    IF outcome /= "rows" THEN <<>>
    ELSE IF strategy = "probe" THEN ProbeColumns(tbl.columns)
    ELSE tbl.columns

\* A chain that runs its three strategies whatever the earlier ones gave and
\* keeps the list of the last one.
RunStrategies_lastWins(i, o, tbl, ran) ==
    [ran |-> ran \o ColumnStrategies,
     columns |-> StrategyColumns(ColumnStrategies[3], o[3], tbl)]

\* The strategies run one after the other while the column list is empty; o
\* gives the outcome of each.  The result is the queries run and the columns.
RECURSIVE RunStrategies(_, _, _, _)
RunStrategies(i, o, tbl, ran) ==
    IF i > Len(ColumnStrategies) THEN [ran |-> ran, columns |-> <<>>]
    ELSE LET columns == StrategyColumns(ColumnStrategies[i], o[i], tbl)
             ran1 == Append(ran, ColumnStrategies[i])
         IN  IF columns /= <<>> THEN [ran |-> ran1, columns |-> columns]
             ELSE RunStrategies(i + 1, o, tbl, ran1)

\* Primary key discovery: the key-column-usage query, then the catalog query
\* if the first gave no row; an exception of either leaves no key.
PrimaryKeys(pk1, pk2, tbl) ==
    IF pk1 = "raise" THEN [ran |-> <<"pk">>, keys |-> <<>>]
    ELSE IF pk1 = "rows" /\ tbl.primary_key /= <<>>
    THEN [ran |-> <<"pk">>, keys |-> tbl.primary_key]
    ELSE [ran |-> <<"pk", "pk_catalog">>,
          keys |-> IF pk2 = "rows" THEN tbl.primary_key ELSE <<>>]

\* Foreign key discovery: an exception leaves no key.
ForeignKeys(fk, tbl) == IF fk = "rows" THEN tbl.foreign_keys ELSE <<>>

SchemaResult(ran, columns, primary_keys, foreign_keys) ==
    [ran |-> ran, columns |-> columns, primary_keys |-> primary_keys,
     foreign_keys |-> foreign_keys]

\* One call: connected and check are the outcomes of connect_mssql and of the
\* existence query, o those of the column strategies, pk1, pk2 and fk those
\* of the key queries.
GetTableSchema(tbl, connected, check, o, pk1, pk2, fk) ==
    IF ~connected THEN SchemaResult(<<>>, <<>>, <<>>, <<>>)
    ELSE IF check = "raise" THEN SchemaResult(<<"exists">>, <<>>, <<>>, <<>>)
    ELSE IF ~table_exists(IF tbl.exists THEN 1 ELSE 0)
    THEN SchemaResult(<<"exists", "list">>, <<>>, <<>>, <<>>)
    ELSE
      LET s == RunStrategies(1, o, tbl, <<"exists">>)
          k == PrimaryKeys(pk1, pk2, tbl)
      IN  IF s.columns = <<>> THEN SchemaResult(s.ran, <<>>, <<>>, <<>>)
          ELSE SchemaResult(s.ran \o k.ran \o <<"fk">>, s.columns, k.keys,
                            ForeignKeys(fk, tbl))

\* ---- one call on a source table drawn from bounded sets ----

NoSourceTable ==
    [exists |-> FALSE, columns |-> <<>>, primary_key |-> <<>>, foreign_keys |-> <<>>]

ForeignKeyLists == {<<>>, <<<<"id", "CompanyOwner", "id">>>>}

SourceTables ==
    {NoSourceTable} \cup
    {[exists |-> TRUE, columns |-> c, primary_key |-> k, foreign_keys |-> f] :
        c \in {l \in ColumnLists : l /= <<>> /\ l[1] = ColId},
        k \in PrimaryKeyLists, f \in ForeignKeyLists}

\* Before the call nothing has given anything.
NoOutcomes ==
    [connected |-> FALSE, check |-> "raise", o |-> [i \in 1..3 |-> "raise"],
     pk1 |-> "raise", pk2 |-> "raise", fk |-> "raise"]

GsInit ==
    /\ gs_pc = "call"
    /\ gs_outcomes = NoOutcomes
    /\ gs_table \in SourceTables
    /\ gs_ran = <<>>
    /\ gs_columns = <<>>
    /\ gs_primary_keys = <<>>
    /\ gs_foreign_keys = <<>>

GsIdle ==
    /\ gs_pc = "idle"
    /\ gs_outcomes = NoOutcomes
    /\ gs_table = NoSourceTable
    /\ gs_ran = <<>>
    /\ gs_columns = <<>>
    /\ gs_primary_keys = <<>>
    /\ gs_foreign_keys = <<>>

\* One call, whatever the connection and each query give.
DescribeTable ==
    /\ gs_pc = "call"
    /\ \E connected \in BOOLEAN, check \in {"rows", "raise"},
          o \in [1..Len(ColumnStrategies) -> QueryOutcomes],
          pk1 \in QueryOutcomes, pk2 \in QueryOutcomes, fk \in {"rows", "raise"} :
         LET r == GetTableSchema(gs_table, connected, check, o, pk1, pk2, fk)
         IN  /\ gs_ran' = r.ran
             /\ gs_columns' = r.columns
             /\ gs_primary_keys' = r.primary_keys
             /\ gs_foreign_keys' = r.foreign_keys
             /\ gs_outcomes' = [connected |-> connected, check |-> check, o |-> o,
                                pk1 |-> pk1, pk2 |-> pk2, fk |-> fk]
    /\ gs_pc' = "done"
    /\ UNCHANGED gs_table
    /\ UNCHANGED <<mtVars, insVars, fbVars, trVars, ctVars, vaVars, orVars, clVars, saVars, nmVars, mnVars, enVars>>

-----------------------------------------------------------------------------
(* Clean: clean_mariadb_tables *)

\* Table names are sequences of characters, as the code compares them with
\* lower().
target_tables == <<
    <<"D","e","t","a","i","l">>,
    <<"I","n","s","p","e","c","t","i","o","n">>,
    <<"I","l","l","e","g","a","l","P","r","o","f","i","t">>,
    <<"A","p","p","e","a","l">>,
    <<"A","l","l","o","w","R","e","w","o","r","k">>,
    <<"M","e","m","o">>,
    <<"V","i","o","l","a","t","i","o","n","C","a","s","e">>,
    <<"A","n","n","o","u","n","c","e","m","e","n","t">>,
    <<"F","a","c","t","o","r","y">>,
    <<"C","o","m","p","a","n","y","O","w","n","e","r">> >>

\* Names of target tables: three of the fixed set, one of them also in lower
\* case, and one outside the set.
TargetNames == {
    <<"D","e","t","a","i","l">>,
    <<"d","e","t","a","i","l">>,
    <<"F","a","c","t","o","r","y">>,
    <<"C","o","m","p","a","n","y","O","w","n","e","r">>,
    <<"L","o","g">> }

\* lower() of every table name at hand.
lower == [x \in TargetNames \cup Range(target_tables) |-> Lower(x)]

\* table_exists = any(t.lower() == table.lower() for t in tables)
TableListed(tn, tables) == \E x \in tables : lower[x] = lower[tn]

\* The tables DROP TABLE IF EXISTS removes: the one of that name, as the
\* server compares names.
DropEffect(tn, tables, case_sensitive) ==
    {x \in tables : IF case_sensitive THEN x = tn ELSE lower[x] = lower[tn]}

\* A loop that a failing drop leaves.
LoopEscapes_onFailure(failed) == failed

\* The drop is inside try/except: a failing drop never leaves the loop.
LoopEscapes(failed) == FALSE

\* The loop over target_tables from position i: fails are the names whose
\* DROP raises.  The result is the statements issued, the tables left and
\* whether an exception left the loop.
RECURSIVE DropLoop(_, _, _, _, _)
DropLoop(i, tables, fails, case_sensitive, log) ==
    IF i > Len(target_tables) THEN [log |-> log, tables |-> tables, escaped |-> FALSE]
    ELSE LET tn == target_tables[i] IN
         IF ~TableListed(tn, tables)
         THEN DropLoop(i + 1, tables, fails, case_sensitive, log)
         ELSE IF tn \in fails
         THEN IF LoopEscapes(TRUE)
              THEN [log |-> Append(log, <<"drop", tn, FALSE>>), tables |-> tables,
                    escaped |-> TRUE]
              ELSE DropLoop(i + 1, tables, fails, case_sensitive,
                            Append(log, <<"drop", tn, FALSE>>))
         ELSE DropLoop(i + 1, tables, fails, case_sensitive,
                       Append(log, <<"drop", tn, TRUE>>))

\* What is left of the tables once the statements of log were executed.
RECURSIVE TablesAfter(_, _, _)
TablesAfter(log, tables, case_sensitive) ==
    IF log = <<>> THEN tables
    ELSE LET s == Head(log)
             left == IF s[1] = "drop" /\ s[3]
                     THEN tables \ DropEffect(s[2], tables, case_sensitive)
                     ELSE tables
         IN  TablesAfter(Tail(log), left, case_sensitive)

\* The statements outside the loop that a driver error can hit.
CleanErrors == {"none", "show", "fk_off", "fk_on", "commit"}

Session(open, fk_checks) == [open |-> open, fk_checks |-> fk_checks]

CleanResult(ok, log, tables, session) ==
    [ok |-> ok, log |-> log, tables |-> tables, session |-> session]

\* One call.  The tables listed by SHOW TABLES stay the list the loop tests,
\* whatever it drops.
CleanOutcome(tables, case_sensitive, connected, error, fails) ==
    IF ~connected THEN CleanResult(FALSE, <<>>, tables, Session(FALSE, TRUE))
    ELSE IF error = "show"
    THEN CleanResult(FALSE, <<<<"show", "", FALSE>>>>, tables, Session(FALSE, TRUE))
    ELSE IF error = "fk_off"
    THEN CleanResult(FALSE, <<<<"show", "", TRUE>>, <<"fk_off", "", FALSE>>>>, tables,
                     Session(FALSE, TRUE))
    ELSE
      LET l == DropLoop(1, tables, fails, case_sensitive,
                        <<<<"show", "", TRUE>>, <<"fk_off", "", TRUE>>>>)
          left == TablesAfter(l.log, tables, case_sensitive)
      IN  IF l.escaped
          THEN CleanResult(FALSE, l.log, left, Session(FALSE, FALSE))
          ELSE IF error = "fk_on"
          THEN CleanResult(FALSE, Append(l.log, <<"fk_on", "", FALSE>>), left,
                           Session(FALSE, FALSE))
          ELSE IF error = "commit"
          THEN CleanResult(FALSE, l.log \o <<<<"fk_on", "", TRUE>>, <<"commit", "", FALSE>>>>,
                           left, Session(FALSE, TRUE))
          ELSE CleanResult(TRUE, l.log \o <<<<"fk_on", "", TRUE>>, <<"commit", "", TRUE>>>>,
                           left, Session(FALSE, TRUE))

\* ---- two calls in succession on a target database drawn from bounded sets ----

\* Tables of the target database: at most MaxTargetTables.
MaxTargetTables == 3

TargetDatabases ==
    {<<T, cs>> \in (SUBSET TargetNames) \X BOOLEAN :
        /\ Cardinality(T) <= MaxTargetTables
        /\ cs \/ \A x, y \in T : lower[x] = lower[y] => x = y}

ClInit ==
    /\ cl_pc = "first"
    /\ \E d \in TargetDatabases : cl_tables = d[1] /\ cl_case_sensitive = d[2]
    /\ cl_before = cl_tables
    /\ cl_log = <<>>
    /\ cl_dropped = <<>>
    /\ cl_session = <<>>
    /\ cl_returned = <<>>

ClIdle ==
    /\ cl_pc = "idle"
    /\ cl_tables = {}
    /\ cl_case_sensitive = TRUE
    /\ cl_before = {}
    /\ cl_log = <<>>
    /\ cl_dropped = <<>>
    /\ cl_session = <<>>
    /\ cl_returned = <<>>

CleanTables ==
    /\ cl_pc \in {"first", "second"}
    /\ \E connected \in BOOLEAN, error \in CleanErrors,
          fails \in SUBSET {tn \in Range(target_tables) : TableListed(tn, cl_tables)} :
         LET r == CleanOutcome(cl_tables, cl_case_sensitive, connected, error, fails)
         IN  /\ cl_tables' = r.tables
             /\ cl_log' = Append(cl_log, r.log)
             /\ cl_dropped' = Append(cl_dropped, cl_tables \ r.tables)
             /\ cl_session' = Append(cl_session, r.session)
             /\ cl_returned' = Append(cl_returned, r.ok)
    /\ cl_pc' = IF cl_pc = "first" THEN "second" ELSE "done"
    /\ UNCHANGED <<cl_case_sensitive, cl_before>>
    /\ UNCHANGED <<mtVars, insVars, fbVars, trVars, ctVars, vaVars, orVars, gsVars, saVars, nmVars, mnVars, enVars>>

-----------------------------------------------------------------------------
(* Source access of the operations *)

\* A statement on the source is <<verb, object>>: the object is the catalog
\* (server and schema views) or the table the operation works on.

\* connect_mssql and create_mssql_engine test the connection with a SELECT.
ConnectionTest == <<"SELECT", "catalog">>

\* A transfer that empties the source table once it is copied.
SourceStatements_moves(operation) ==
    IF operation = "migrate_table_data"
    THEN <<ConnectionTest, <<"SELECT", "table">>, <<"SELECT", "table">>,
           <<"DELETE", "table">>>>
    ELSE <<ConnectionTest>>

\* The statements each operation issues on the source, in the order of its
\* code; the operations on the target issue none.
SourceStatements(operation) ==
    CASE operation = "get_mssql_tables" ->
           <<ConnectionTest, <<"SELECT", "catalog">>>>
      [] operation = "get_table_schema" ->
           <<ConnectionTest,
             <<"SELECT", "catalog">>,   \* the table exists
             <<"SELECT", "catalog">>,   \* the available tables
             <<"SELECT", "catalog">>,   \* INFORMATION_SCHEMA.COLUMNS
             <<"SELECT", "catalog">>,   \* sys.columns
             <<"SELECT", "table">>,     \* SELECT TOP 1 *
             <<"SELECT", "catalog">>,   \* key column usage
             <<"SELECT", "catalog">>,   \* sys.key_constraints
             <<"SELECT", "catalog">>>>  \* referential constraints
      [] operation = "migrate_table_data" ->
           <<ConnectionTest,
             <<"SELECT", "table">>,     \* SELECT COUNT(*)
             <<"SELECT", "table">>>>    \* the page query, once per page
      [] operation = "validate_single_table" ->
           <<ConnectionTest,
             <<"SELECT", "table">>,     \* SELECT COUNT(*)
             <<"SELECT", "table">>,     \* the sample
             <<"SELECT", "catalog">>,   \* the numeric columns
             <<"SELECT", "table">>>>    \* MIN and MAX
      [] operation \in {"create_mariadb_table", "clean_mariadb_tables",
                        "optimize_mariadb_tables"} -> <<>>

Operations == {"get_mssql_tables", "get_table_schema", "migrate_table_data",
               "validate_single_table", "create_mariadb_table",
               "clean_mariadb_tables", "optimize_mariadb_tables"}

\* The source database after one statement on the table tn.
Execute(stmt, tn, db) ==
    IF stmt[1] = "SELECT" \/ stmt[2] = "catalog" THEN db
    ELSE IF stmt[1] = "DELETE" THEN [db EXCEPT ![tn] = <<>>]
    ELSE IF stmt[1] = "INSERT" THEN [db EXCEPT ![tn] = Append(@, Len(@) + 1)]
    ELSE [x \in DOMAIN db \ {tn} |-> db[x]]

RECURSIVE ExecuteAll(_, _, _)
ExecuteAll(stmts, tn, db) ==
    IF stmts = <<>> THEN db
    ELSE ExecuteAll(Tail(stmts), tn, Execute(Head(stmts), tn, db))

\* ---- operations in any order on a source database drawn from bounded sets ----

\* Rows of a source table: 0..MaxSourceRows; operations run: at most MaxOperations.
MaxSourceRows == 1

MaxOperations == 2

SourceDatabases ==
    UNION {[T -> {Rows(n) : n \in 0..MaxSourceRows}] :
             T \in {{"Factory"}, {"Factory", "Detail"}}}

SaInit ==
    /\ sa_db \in SourceDatabases
    /\ sa_initial = sa_db
    /\ sa_log = <<>>

SaIdle ==
    /\ sa_db = <<>>
    /\ sa_initial = <<>>
    /\ sa_log = <<>>

\* One operation on a table of the source; a failure ends it after any of its
\* statements.
RunOperation ==
    /\ Len(sa_log) < MaxOperations
    /\ \E operation \in Operations, tn \in DOMAIN sa_db :
       \E n \in 0..Len(SourceStatements(operation)) :
         LET issued == SubSeq(SourceStatements(operation), 1, n)
         IN  /\ sa_db' = ExecuteAll(issued, tn, sa_db)
             /\ sa_log' = Append(sa_log, <<operation, tn, issued>>)
    /\ UNCHANGED sa_initial
    /\ UNCHANGED <<mtVars, insVars, fbVars, trVars, ctVars, vaVars, orVars, gsVars, clVars, nmVars, mnVars, enVars>>

-----------------------------------------------------------------------------
(* Page normalisation: preprocess_data and convert_numpy_to_python *)

\* A value is <<kind, text>>: kind is the Python type of the value, text what
\* it prints.  None and NaN (NaT) are the null values of a page.
PyNone == <<"NoneType", "None">>

NaN == <<"float", "nan">>

\* pd.isna / not pd.notnull
IsNull(value) == value[1] \in {"NoneType"} \/ value = NaN \/ value = <<"NaTType", "NaT">>

\* The texts of the model: a date, a date with a time, a date with slashes
\* and a word.
DateTexts == {"2024-01-15", "2024-01-15 10:30:00", "2024/1/5"}

Texts == DateTexts \cup {"n/a"}

\* re.match(r'\d{4}[-/]\d{1,2}[-/]\d{1,2}', text): the text starts with a date.
MatchesDatePattern(text) == text \in DateTexts

\* The format the parser infers from a text.
DateFormat(text) ==
    CASE text = "2024-01-15" -> "%Y-%m-%d"
      [] text = "2024-01-15 10:30:00" -> "%Y-%m-%d %H:%M:%S"
      [] text = "2024/1/5" -> "%Y/%m/%d"
      [] OTHER -> ""

\* strftime('%Y-%m-%d') of the parsed text.
DateString(text) ==
    CASE text = "2024-01-15" -> "2024-01-15"
      [] text = "2024-01-15 10:30:00" -> "2024-01-15"
      [] text = "2024/1/5" -> "2024-01-05"
      [] OTHER -> "nan"

\* pd.to_datetime(column, errors='coerce').dt.strftime('%Y-%m-%d') for one
\* value: what does not parse becomes NaN.  A strict parser takes the format
\* of the first value for the whole column, a lenient one parses each value
\* on its own; which one runs depends on the installed pandas.
CoercedDate(value, sample, strict) ==
    IF IsNull(value) \/ value[1] /= "str" \/ ~MatchesDatePattern(value[2]) THEN NaN
    ELSE IF strict /\ DateFormat(value[2]) /= DateFormat(sample[2]) THEN NaN
    ELSE <<"str", DateString(value[2])>>

RECURSIVE Contains(_, _)
\* sub in s, for sequences of characters
Contains(s, sub) ==
    IF Len(s) < Len(sub) THEN FALSE
    ELSE SubSeq(s, 1, Len(sub)) = sub \/ Contains(Tail(s), sub)

\* 'date' in col.lower()
IsDateName(col) == Contains(Lower(col), <<"d","a","t","e">>)

\* df[col].dropna().iloc[0], or None
FirstNonNull(values) ==
    LET kept == SelectSeq(values, LAMBDA v : ~IsNull(v))
    IN  IF kept = <<>> THEN PyNone ELSE kept[1]

\* datetime strftime('%Y-%m-%d %H:%M:%S') of a timestamp: the text of a
\* timestamp of the model is in that form already.
FormatTimestamp(value) == <<"str", value[2]>>

\* preprocess_data for one column: nulls become None, then the conversion of
\* the column's dtype is applied to every value.
preprocess_data(column, strict) ==
    LET values == [i \in 1..Len(column.values) |->
                      IF IsNull(column.values[i]) THEN PyNone ELSE column.values[i]]
        sample == FirstNonNull(values)
    IN  IF column.dtype = "int64"
        THEN [i \in 1..Len(values) |->
                IF IsNull(values[i]) THEN PyNone ELSE <<"int", values[i][2]>>]
        ELSE IF column.dtype = "float64"
        THEN [i \in 1..Len(values) |->
                IF IsNull(values[i]) THEN PyNone ELSE <<"float", values[i][2]>>]
        ELSE IF column.dtype = "bool"
        THEN [i \in 1..Len(values) |->
                IF IsNull(values[i]) THEN PyNone ELSE <<"bool", values[i][2]>>]
        ELSE IF column.dtype = "datetime64[ns]"
        THEN [i \in 1..Len(values) |->
                IF IsNull(values[i]) THEN PyNone ELSE FormatTimestamp(values[i])]
        ELSE IF IsDateName(column.name) /\ ~IsNull(sample) /\ sample[1] = "str"
                /\ sample[2] /= "" /\ MatchesDatePattern(sample[2])
        THEN [i \in 1..Len(values) |-> CoercedDate(values[i], sample, strict)]
        ELSE values

\* convert_numpy_to_python
convert_numpy_to_python(value) ==
    CASE value[1] \in {"numpy.int64"} -> <<"int", value[2]>>
      [] value[1] \in {"numpy.float64"} -> <<"float", value[2]>>
      [] value[1] = "numpy.bool_" -> <<"bool", value[2]>>
      [] value[1] \in {"numpy.datetime64", "Timestamp"} -> FormatTimestamp(value)
      [] OTHER -> value

\* The value the page insert hands to the driver (processed_row).
ProcessedValue(value) ==
    IF IsNull(value) THEN PyNone
    ELSE IF value[1] = "str" THEN value
    ELSE convert_numpy_to_python(value)

\* The column of a page as handed to the driver.
NormalisedColumn(column, strict) ==
    LET df == preprocess_data(column, strict)
    IN  [i \in 1..Len(df) |-> ProcessedValue(df[i])]

\* ---- one page of one column drawn from bounded sets ----

\* Rows of the page: 0..MaxNormRows.
MaxNormRows == 2

\* Column names: one without 'date', two with it.
NormNames == { <<"N","a","m","e">>,
               <<"U","p","d","a","t","e","D","a","t","e">>,
               <<"C","a","n","d","i","d","a","t","e">> }

\* The values pandas gives a column of each dtype.
DtypeValues(dtype) ==
    CASE dtype = "int64" -> {<<"numpy.int64", "7">>}
      [] dtype = "float64" -> {<<"numpy.float64", "1.5">>, NaN}
      [] dtype = "bool" -> {<<"numpy.bool_", "True">>}
      [] dtype = "datetime64[ns]" ->
           {<<"Timestamp", "2024-01-15 10:30:00">>, <<"NaTType", "NaT">>}
      [] dtype = "object" -> {PyNone} \cup {<<"str", t>> : t \in Texts}

Dtypes == {"int64", "float64", "bool", "datetime64[ns]", "object"}

NormColumns ==
    UNION {{[name |-> n, dtype |-> d, values |-> v] :
               n \in NormNames, v \in SeqsUpTo(DtypeValues(d), MaxNormRows)}
           : d \in Dtypes}

NmInit ==
    /\ nm_pc = "call"
    /\ nm_column \in NormColumns
    /\ nm_strict = FALSE
    /\ nm_row = <<>>

NmIdle ==
    /\ nm_pc = "idle"
    /\ nm_column = [name |-> <<>>, dtype |-> "object", values |-> <<>>]
    /\ nm_strict = FALSE
    /\ nm_row = <<>>

\* One page: preprocess_data, then the conversion of the page insert.
NormalisePage ==
    /\ nm_pc = "call"
    /\ \E strict \in BOOLEAN :
         /\ nm_strict' = strict
         /\ nm_row' = NormalisedColumn(nm_column, strict)
    /\ nm_pc' = "done"
    /\ UNCHANGED nm_column
    /\ UNCHANGED <<mtVars, insVars, fbVars, trVars, ctVars, vaVars, orVars, gsVars, clVars, saVars, mnVars, enVars>>

-----------------------------------------------------------------------------
(* The validate action of main *)

\* Tables of the source: 0..MaxListed.
MaxListed == 2

\* check_mariadb_tables_exist: the names SHOW TABLES lists, [] when the
\* connection or the statement fails.
check_mariadb_tables_exist(tables, shown) == IF shown THEN tables ELSE {}

\* missing_tables: the source tables without a target table of the same
\* name, letter case aside.
MissingTables(mssql_tables, existing_tables) ==
    SelectSeq(mssql_tables, LAMBDA tn : ~TableListed(tn, existing_tables))

RECURSIVE MigrationStatements(_, _)
\* The statements of migrate_full_database on the target: every table is
\* dropped and created (create_mariadb_table), and the rows of the first
\* `transferred` tables are inserted (migrate_table_data).
MigrationStatements(tables, transferred) ==
    IF tables = <<>> THEN <<>>
    ELSE <<<<"DROP TABLE IF EXISTS", Head(tables)>>, <<"CREATE TABLE", Head(tables)>>>>
         \o (IF transferred > 0 THEN <<<<"INSERT", Head(tables)>>>> ELSE <<>>)
         \o MigrationStatements(Tail(tables), IF transferred > 0 THEN transferred - 1 ELSE 0)

\* The statements of validate_migration_complete on the target.
ValidationStatements(tables) == [i \in 1..Len(tables) |-> <<"SELECT", tables[i]>>]

ListedTables ==
    {s \in SeqsUpTo(TargetNames, MaxListed) : \A i, j \in 1..Len(s) : s[i] = s[j] => i = j}

MnInit ==
    /\ mn_pc = "check"
    /\ mn_source \in ListedTables
    /\ mn_target \in SUBSET TargetNames
    /\ mn_missing = <<>>
    /\ mn_statements = <<>>

MnIdle ==
    /\ mn_pc = "idle"
    /\ mn_source = <<>>
    /\ mn_target = {}
    /\ mn_missing = <<>>
    /\ mn_statements = <<>>

\* existing_tables, mssql_tables and missing_tables (lines 1595-1601)
CheckTables ==
    /\ mn_pc = "check"
    /\ \E shown \in BOOLEAN :
         mn_missing' = MissingTables(mn_source, check_mariadb_tables_exist(mn_target, shown))
    /\ mn_statements' = Append(mn_statements, <<"SHOW TABLES", <<>>>>)
    /\ mn_pc' = IF mn_missing' /= <<>> THEN "migrate" ELSE "validate"
    /\ UNCHANGED <<mn_source, mn_target>>
    /\ UNCHANGED <<mtVars, insVars, fbVars, trVars, ctVars, vaVars, orVars, gsVars, clVars, saVars, nmVars, enVars>>

\* migrate_full_database, then sys.exit(1) if it failed (lines 1603-1613)
AutoMigrate ==
    /\ mn_pc = "migrate"
    /\ \E transferred \in 0..Len(mn_source) :
         /\ mn_statements' = mn_statements \o MigrationStatements(mn_source, transferred)
         /\ mn_pc' = IF MigrationSucceeded(transferred) THEN "validate" ELSE "exit"
    /\ mn_target' = mn_target \cup Range(mn_source)
    /\ UNCHANGED <<mn_source, mn_missing>>
    /\ UNCHANGED <<mtVars, insVars, fbVars, trVars, ctVars, vaVars, orVars, gsVars, clVars, saVars, nmVars, enVars>>

\* validate_migration_complete (lines 1615-1620)
RunValidation ==
    /\ mn_pc = "validate"
    /\ mn_statements' = mn_statements \o ValidationStatements(mn_source)
    /\ mn_pc' = "done"
    /\ UNCHANGED <<mn_source, mn_target, mn_missing>>
    /\ UNCHANGED <<mtVars, insVars, fbVars, trVars, ctVars, vaVars, orVars, gsVars, clVars, saVars, nmVars, enVars>>

-----------------------------------------------------------------------------
(* The cached source engine: create_mssql_engine *)

\* Calls of create_mssql_engine in one run: 0..MaxEngineCalls.
MaxEngineCalls == 6

\* What can happen in a call that finds no engine: the configuration lacks a
\* key ("config"), create_engine raises ("create"), the connectivity test
\* raises ("test"), or nothing raises ("ok").
EngineOutcomes(config) ==
    IF ~config.has_server THEN {"config"} ELSE {"create", "test", "ok"}

\* The connection URL of the configuration.
ConnectionUrl(config) ==
    IF config.use_windows_auth THEN "trusted_connection" ELSE "username:password"

\* One call: <<self.mssql_engine after it, the returned value>>.  An engine
\* is [id, url, tested]: tested tells whether a connectivity test of this
\* engine succeeded (history).
create_mssql_engine(engine, config, outcome, id) ==
    IF engine /= None
    THEN <<engine, engine>>
    ELSE IF outcome \in {"config", "create"}
    THEN <<None, None>>
    ELSE LET created == [id |-> id, url |-> ConnectionUrl(config), tested |-> FALSE]
         IN  IF outcome = "test"
             THEN <<Some(created), None>>
             ELSE <<Some([created EXCEPT !.tested = TRUE]),
                    Some([created EXCEPT !.tested = TRUE])>>

EnInit ==
    /\ en_pc = "ready"
    /\ en_config \in [has_server : BOOLEAN, use_windows_auth : BOOLEAN]
    /\ mssql_engine = None
    /\ en_calls = <<>>

EnIdle ==
    /\ en_pc = "idle"
    /\ en_config = [has_server |-> FALSE, use_windows_auth |-> FALSE]
    /\ mssql_engine = None
    /\ en_calls = <<>>

\* One call of create_mssql_engine.
CreateEngine ==
    /\ en_pc = "ready"
    /\ Len(en_calls) < MaxEngineCalls
    /\ \E outcome \in EngineOutcomes(en_config) :
         LET call == create_mssql_engine(mssql_engine, en_config, outcome, Len(en_calls) + 1)
         IN  /\ mssql_engine' = call[1]
             /\ en_calls' = Append(en_calls,
                    [outcome |-> IF mssql_engine /= None THEN "cached" ELSE outcome,
                     returned |-> call[2]])
    /\ UNCHANGED <<en_pc, en_config>>
    /\ UNCHANGED <<mtVars, insVars, fbVars, trVars, ctVars, vaVars, orVars, gsVars, clVars, saVars, nmVars, mnVars>>

-----------------------------------------------------------------------------
(* Specifications *)

\* One call of migrate_table_data.
Init == TrInit /\ MtIdle /\ InsIdle /\ FbIdle /\ CtIdle /\ VaIdle /\ OrIdle /\ GsIdle /\ ClIdle /\ SaIdle /\ NmIdle /\ MnIdle /\ EnIdle

Next ==
    \/ StartNoConnection
    \/ StartCountFails
    \/ Start
    \/ PageFetchFails
    \/ PageInsertFails
    \/ Page
    \/ FinalCommit

Spec == Init /\ [][Next]_vars

\* One call of convert_datatype.
InitMapType == MtInit /\ InsIdle /\ FbIdle /\ TrIdle /\ CtIdle /\ VaIdle /\ OrIdle /\ GsIdle /\ ClIdle /\ SaIdle /\ NmIdle /\ MnIdle /\ EnIdle

NextMapType == MapType

SpecMapType == InitMapType /\ [][NextMapType]_vars

\* One call of insert_batch_to_mariadb.
InitInsert == InsInit /\ MtIdle /\ FbIdle /\ TrIdle /\ CtIdle /\ VaIdle /\ OrIdle /\ GsIdle /\ ClIdle /\ SaIdle /\ NmIdle /\ MnIdle /\ EnIdle

NextInsert == InsertBatch

SpecInsert == InitInsert /\ [][NextInsert]_vars

\* One call of fallback_single_insert.
InitFallback == FbInit /\ MtIdle /\ InsIdle /\ TrIdle /\ CtIdle /\ VaIdle /\ OrIdle /\ GsIdle /\ ClIdle /\ SaIdle /\ NmIdle /\ MnIdle /\ EnIdle

NextFallback ==
    \/ FallbackRowOk
    \/ FallbackRowError
    \/ FallbackReturn

SpecFallback == InitFallback /\ [][NextFallback]_vars

\* Two calls of create_mariadb_table in succession, with the same arguments.
InitCreate == CtInit /\ MtIdle /\ InsIdle /\ FbIdle /\ TrIdle /\ VaIdle /\ OrIdle /\ GsIdle /\ ClIdle /\ SaIdle /\ NmIdle /\ MnIdle /\ EnIdle

NextCreate == CreateTable

SpecCreate == InitCreate /\ [][NextCreate]_vars

\* One call of validate_migration_complete.
InitValidate == VaInit /\ MtIdle /\ InsIdle /\ FbIdle /\ TrIdle /\ CtIdle /\ OrIdle /\ GsIdle /\ ClIdle /\ SaIdle /\ NmIdle /\ MnIdle /\ EnIdle

NextValidate ==
    \/ ValidateTable
    \/ ValidateMemo
    \/ ValidationReturn

SpecValidate == InitValidate /\ [][NextValidate]_vars

\* One call of migrate_full_database.
InitMigrate == OrInit /\ MtIdle /\ InsIdle /\ FbIdle /\ TrIdle /\ CtIdle /\ VaIdle /\ GsIdle /\ ClIdle /\ SaIdle /\ NmIdle /\ MnIdle /\ EnIdle

NextMigrate ==
    \/ Discover
    \/ StructureTable
    \/ StructureDone
    \/ TransferTable
    \/ TransferDone
    \/ RemainingTable
    \/ Report

SpecMigrate == InitMigrate /\ [][NextMigrate]_vars

\* One call of get_table_schema.
InitDescribe == GsInit /\ MtIdle /\ InsIdle /\ FbIdle /\ TrIdle /\ CtIdle /\ VaIdle /\ OrIdle /\ ClIdle /\ SaIdle /\ NmIdle /\ MnIdle /\ EnIdle

NextDescribe == DescribeTable

SpecDescribe == InitDescribe /\ [][NextDescribe]_vars

\* Two calls of clean_mariadb_tables in succession.
InitClean == ClInit /\ MtIdle /\ InsIdle /\ FbIdle /\ TrIdle /\ CtIdle /\ VaIdle /\ OrIdle /\ GsIdle /\ SaIdle /\ NmIdle /\ MnIdle /\ EnIdle

NextClean == CleanTables

SpecClean == InitClean /\ [][NextClean]_vars

\* Operations of the migrator in any order, seen from the source.
InitSource == SaInit /\ MtIdle /\ InsIdle /\ FbIdle /\ TrIdle /\ CtIdle /\ VaIdle /\ OrIdle /\ GsIdle /\ ClIdle /\ NmIdle /\ MnIdle /\ EnIdle

NextSource == RunOperation

SpecSource == InitSource /\ [][NextSource]_vars

\* One page of one column through the normalisation.
InitNormalise == NmInit /\ MtIdle /\ InsIdle /\ FbIdle /\ TrIdle /\ CtIdle /\ VaIdle /\ OrIdle /\ GsIdle /\ ClIdle /\ SaIdle /\ MnIdle /\ EnIdle

NextNormalise == NormalisePage

SpecNormalise == InitNormalise /\ [][NextNormalise]_vars

\* The validate action of the command line.
InitMain == MnInit /\ MtIdle /\ InsIdle /\ FbIdle /\ TrIdle /\ CtIdle /\ VaIdle /\ OrIdle /\ GsIdle /\ ClIdle /\ SaIdle /\ NmIdle /\ EnIdle

NextMain == CheckTables \/ AutoMigrate \/ RunValidation

SpecMain == InitMain /\ [][NextMain]_vars

\* A run of calls of create_mssql_engine on one migrator.
InitEngine == EnInit /\ MtIdle /\ InsIdle /\ FbIdle /\ TrIdle /\ CtIdle /\ VaIdle /\ OrIdle /\ GsIdle /\ ClIdle /\ SaIdle /\ NmIdle /\ MnIdle

NextEngine == CreateEngine

SpecEngine == InitEngine /\ [][NextEngine]_vars

-----------------------------------------------------------------------------
(* Properties of the table transfer (specification Spec) *)

RECURSIVE RowsOfPages(_)
\* The rows of a sequence of fetched pages, in order.
RowsOfPages(ps) ==
    IF ps = <<>> THEN <<>>
    ELSE RowsOfPages(SubSeq(ps, 1, Len(ps) - 1)) \o ps[Len(ps)][2]

SeqRange(s) == {s[i] : i \in 1..Len(s)}

\* The number of pages that were fetched when the last commit inside the loop
\* succeeded (0 if none did).
LastCheckpoint == IF checkpoints = <<>> THEN 0 ELSE checkpoints[Len(checkpoints)]

\* C1: the target transaction is committed if and only if every batch of the
\* table succeeded: over the runs in which nothing but a page insert fails,
\* the call returns success exactly when no page insert failed, on success the
\* target table holds all source rows, and on failure it holds none of the
\* rows of this run.
C1_AllOrNothing ==
    (pc = "done" /\ failure \in {"", "insert"}) =>
        /\ (result = "true") <=> (failure = "")
        /\ result = "true" => table = source
        /\ result = "false" => table = <<>>

\* C2: when a page insert fails, after the rollback the target table holds
\* exactly the rows of the pages fetched up to the last successful commit
\* inside the loop: nothing is left staged, and no row of a later page, the
\* failing page included, is in the table.
C2_RollbackToCheckpoint ==
    (pc = "done" /\ failure = "insert") =>
        /\ txn = <<>>
        /\ LastCheckpoint < Len(pages)
        /\ table = RowsOfPages(SubSeq(pages, 1, LastCheckpoint))
        /\ \A i \in (LastCheckpoint + 1)..Len(pages) :
              SeqRange(pages[i][2]) \cap SeqRange(table) = {}

\* A page insert fails after two commits inside the loop, and a page inserted
\* after the second one is rolled back with the failing page.
C2_Witness ==
    /\ pc = "done"
    /\ failure = "insert"
    /\ Len(checkpoints) = 2
    /\ table /= <<>>
    /\ Len(inserted) > Len(table)
    /\ Len(pages) > LastCheckpoint + 1

\* The outcome of a complete transfer of n rows in pages of b rows: success,
\* ceil(n/b) pages at offsets 0, b, 2b, ..., each of b rows except a last page
\* of n mod b rows when that is not zero, every source row inserted exactly
\* once (in order), and a target table of the n source rows.
TransferComplete ==
    LET n == Len(source)
        b == batch_size
        np == CeilDiv(n, b)
    IN  /\ result = "true"
        /\ Len(pages) = np
        /\ \A i \in 1..Len(pages) :
              /\ pages[i][1] = (i - 1) * b
              /\ Len(pages[i][2]) = IF i < np \/ n % b = 0 THEN b ELSE n % b
        /\ inserted = source
        /\ table = source
        /\ Len(table) = n

-----------------------------------------------------------------------------
(* Properties of the page insert (specification SpecInsert) *)

\* C4: inserting a page of n rows issues one single-row insert when n = 1,
\* one batched insert of all n rows when 2 <= n <= 100, and ceil(n/100)
\* batched inserts over the consecutive chunks of 100 rows (the last one
\* holding the remainder) when n > 100, so that every row is submitted exactly
\* once and in page order; a call that fails is the last one issued.
C4_InsertCalls ==
    ins_pc = "done" =>
        LET n == Len(ins_df)
            plan ==
                IF n = 1 THEN << [kind |-> "execute", rows |-> ins_df] >>
                ELSE IF 2 <= n /\ n <= 100
                     THEN << [kind |-> "executemany", rows |-> ins_df] >>
                ELSE IF n > 100
                     THEN [k \in 1..CeilDiv(n, 100) |->
                             [kind |-> "executemany",
                              rows |-> SubSeq(ins_df, 100 * (k - 1) + 1, Min(100 * k, n))]]
                ELSE <<>>
        IN  /\ ins_ok => (ins_calls = plan /\ RowsOfCalls(ins_calls) = ins_df)
            /\ ~ins_ok => ins_calls = SubSeq(plan, 1, ins_fail)

\* A page of 101 rows went out as two batched calls of 100 rows and 1 row.
C4_Witness ==
    /\ ins_pc = "done"
    /\ ins_ok
    /\ Len(ins_df) = 101
    /\ Len(ins_calls) = 2
    /\ Len(ins_calls[1].rows) = 100
    /\ Len(ins_calls[2].rows) = 1

-----------------------------------------------------------------------------
(* Properties of the row-level fallback (specification SpecFallback) *)

\* C5: as soon as more than 10 row inserts have failed the loop halts: the
\* call has returned failure at the 11th error and no further row is
\* attempted; with 10 or fewer failed rows every row of the page is attempted.
C5_FallbackCap ==
    /\ [](error_count > 10 => (fb_pc = "done" /\ ~fb_ok /\ error_count = 11))
    /\ []((fb_pc = "done" /\ error_count <= 10) => fb_attempted = fb_df)
    /\ [][error_count > 10 => fb_attempted' = fb_attempted]_vars

\* The 11th error stopped the loop with rows of the page left unattempted.
C5_Witness ==
    /\ fb_pc = "done"
    /\ error_count = 11
    /\ ~fb_ok
    /\ Len(fb_attempted) < Len(fb_df)

-----------------------------------------------------------------------------
(* Properties of the type mapper (specification SpecMapType) *)

\* A name as written in lower case, in capitals, and with a capital first letter.
CaseVariants(name) == {name, Upper(name), Capitalized(name)}

\* The decimal, the variable character and the fixed character names, in every case variant.
DecimalInputs == CaseVariants(<<"d","e","c","i","m","a","l">>) \cup CaseVariants(<<"n","u","m","e","r","i","c">>)

IsDecimalInput == mt_type \in DecimalInputs

VarcharInputs == CaseVariants(<<"v","a","r","c","h","a","r">>) \cup CaseVariants(<<"n","v","a","r","c","h","a","r">>)

IsVarcharInput == mt_type \in VarcharInputs

CharInputs == CaseVariants(<<"c","h","a","r">>) \cup CaseVariants(<<"n","c","h","a","r">>)

IsCharInput == mt_type \in CharInputs

\* C6: the type mapper is total: for every type name, recognised or not and
\* in any letter case, and every length, precision and scale (absent, zero,
\* negative or positive) it returns a non-empty type string.
C6_Total == mt_pc = "done" => Len(mt_out) > 0

\* An unrecognised name in capitals with a negative length and no precision
\* or scale was mapped.
C6_Witness ==
    /\ mt_pc = "done"
    /\ mt_type = <<"X","M","L">>
    /\ mt_length = Some(-1)
    /\ mt_precision = None
    /\ mt_scale = None
    /\ mt_out = "TEXT"

\* C7 as stated: for decimal and numeric the result is
\* DECIMAL(precision,scale) whenever both are present, for every integer value
\* of each including 0, and DECIMAL(10,2) when one of them is absent.
C7_BothPresent ==
    (mt_pc = "done" /\ IsDecimalInput) =>
        mt_out = IF mt_precision /= None /\ mt_scale /= None
                 THEN Fmt2("DECIMAL", mt_precision[1], mt_scale[1])
                 ELSE "DECIMAL(10,2)"

\* C7, amended: for decimal and numeric the result is
\* DECIMAL(precision,scale) whenever precision is present and not 0 and scale
\* is present (any integer, 0 included), and DECIMAL(10,2) whenever precision
\* is absent or 0 or scale is absent.
C7_Decimal ==
    (mt_pc = "done" /\ IsDecimalInput) =>
        mt_out = IF mt_precision /= None /\ mt_precision[1] /= 0 /\ mt_scale /= None
                 THEN Fmt2("DECIMAL", mt_precision[1], mt_scale[1])
                 ELSE "DECIMAL(10,2)"

\* A precision of 0 with a scale present was mapped to the default.
C7_Witness ==
    /\ mt_pc = "done"
    /\ mt_type = <<"n","u","m","e","r","i","c">>
    /\ mt_precision = Some(0)
    /\ mt_scale = Some(1)
    /\ mt_out = "DECIMAL(10,2)"

\* C8: for varchar and nvarchar the result is VARCHAR(length) if and only if
\* 0 < length <= 16383, and TEXT when the length is larger, absent, 0 or
\* negative.
C8_Varchar ==
    (mt_pc = "done" /\ IsVarcharInput) =>
        IF mt_length /= None /\ 0 < mt_length[1] /\ mt_length[1] <= 16383
        THEN mt_out = Fmt1("VARCHAR", mt_length[1])
        ELSE mt_out = "TEXT"

\* The boundary: a length of 16383 was mapped to VARCHAR(16383).
C8_Witness ==
    /\ mt_pc = "done"
    /\ mt_type = Upper(<<"n","v","a","r","c","h","a","r">>)
    /\ mt_length = Some(16383)
    /\ mt_out = "VARCHAR(16383)"

\* C9 as stated: for char and nchar the result is CHAR(length) if
\* 0 < length <= 255, CHAR(1) if the length is absent, and VARCHAR(length) for
\* every other length that is present.
C9_PresentOutside ==
    (mt_pc = "done" /\ IsCharInput) =>
        mt_out = IF mt_length = None THEN "CHAR(1)"
                 ELSE IF 0 < mt_length[1] /\ mt_length[1] <= 255
                      THEN Fmt1("CHAR", mt_length[1])
                      ELSE Fmt1("VARCHAR", mt_length[1])

\* C9, amended: for char and nchar the result is CHAR(length) if
\* 0 < length <= 255, VARCHAR(length) if length > 255, and CHAR(1) if the
\* length is absent, 0 or negative.
C9_Char ==
    (mt_pc = "done" /\ IsCharInput) =>
        mt_out = IF mt_length = None \/ mt_length[1] <= 0 THEN "CHAR(1)"
                 ELSE IF mt_length[1] <= 255
                      THEN Fmt1("CHAR", mt_length[1])
                      ELSE Fmt1("VARCHAR", mt_length[1])

\* A length of 0 was mapped to CHAR(1).
C9_Witness ==
    /\ mt_pc = "done"
    /\ mt_type = <<"c","h","a","r">>
    /\ mt_length = Some(0)
    /\ mt_out = "CHAR(1)"

\* <<name, value>> for every case variant of every key of the static table
\* outside the decimal and character families, with the table's value.
StaticCases ==
    UNION {{<<v, datatype_mapping[i][2]>> : v \in CaseVariants(datatype_mapping[i][1])} :
              i \in {j \in 1..Len(datatype_mapping) :
                       datatype_mapping[j][1] \notin DecimalNames \cup VarcharNames \cup CharNames}}

UniqueidentifierInputs == CaseVariants(<<"u","n","i","q","u","e","i","d","e","n","t","i","f","i","e","r">>)

MoneyInputs == CaseVariants(<<"m","o","n","e","y">>)

BitInputs == CaseVariants(<<"b","i","t">>)

\* Every case variant of every name the static table does not hold.
UnknownInputs == UNION {CaseVariants(u) : u \in UnknownNames}

\* C10: the type name is matched without regard to letter case; every name of
\* the static table outside the decimal and character families gives the
\* table's value whatever the length, precision and scale are
\* (uniqueidentifier gives VARCHAR(36), money DECIMAL(19,4), bit BOOLEAN); and
\* every name the table does not hold gives TEXT.
C10_StaticTable ==
    mt_pc = "done" =>
        /\ \A c \in StaticCases : mt_type = c[1] => mt_out = c[2]
        /\ mt_type \in UniqueidentifierInputs => mt_out = "VARCHAR(36)"
        /\ mt_type \in MoneyInputs => mt_out = "DECIMAL(19,4)"
        /\ mt_type \in BitInputs => mt_out = "BOOLEAN"
        /\ mt_type \in UnknownInputs => mt_out = "TEXT"

\* uniqueidentifier in capitals, with a length, a precision and a scale given,
\* was mapped to VARCHAR(36).
C10_Witness ==
    /\ mt_pc = "done"
    /\ mt_type = Upper(<<"u","n","i","q","u","e","i","d","e","n","t","i","f","i","e","r">>)
    /\ mt_length = Some(50)
    /\ mt_precision = Some(10)
    /\ mt_scale = Some(2)
    /\ mt_out = "VARCHAR(36)"

-----------------------------------------------------------------------------
(* Properties of the structure synchronizer (specification SpecCreate) *)

\* Both calls opened the connection and no statement of either raised.
NothingRaised == ct_raised = <<{}, {}>>

-----------------------------------------------------------------------------
(* Properties of the validator (specification SpecValidate) *)

\* The source types the type mapper maps to a numeric target type.
NumericTypeNames == {
    <<"i","n","t">>, <<"b","i","g","i","n","t">>,
    <<"s","m","a","l","l","i","n","t">>, <<"t","i","n","y","i","n","t">>,
    <<"d","e","c","i","m","a","l">>, <<"n","u","m","e","r","i","c">>,
    <<"m","o","n","e","y">>, <<"f","l","o","a","t">>, <<"r","e","a","l">> }

\* C12: a table validated by validate_single_table (no query raising) whose
\* source and target have the same number of rows and whose numeric column
\* (smallint and tinyint included) has another MIN or another MAX in the
\* target is reported with extreme_values_match = False and
\* data_consistency = False.
C12_ExtremesDetected ==
    \A i \in 1..Len(va_results) :
      (/\ va_names[i] /= "Memo"
       /\ va_raised[i] = "none"
       /\ va_data.tgt_exists
       /\ va_data.data_type \in NumericTypeNames
       /\ Len(va_data.src) = Len(va_data.tgt)
       /\ Extremes(va_data.src) /= Extremes(va_data.tgt))
      => /\ ~va_results[i].extreme_values_match
         /\ ~va_results[i].data_consistency

\* C13: in every result the validator holds, data_consistency is the AND of
\* record_count_match, sample_data_match and extreme_values_match, and
\* overall_success is true exactly when every table validated so far is
\* consistent.
C13_ConsistentIsAnd ==
    /\ \A i \in 1..Len(va_results) :
         va_results[i].data_consistency
           <=> (/\ va_results[i].record_count_match
                /\ va_results[i].sample_data_match
                /\ va_results[i].extreme_values_match)
    /\ overall_success
         <=> \A i \in 1..Len(va_results) : va_results[i].data_consistency

\* The call returned two results: a table whose counts and sample match and
\* whose extremes differ (not consistent), and a consistent one.
C13_Witness ==
    /\ va_pc = "done"
    /\ Len(va_results) = 2
    /\ va_results[1].record_count_match
    /\ va_results[1].sample_data_match
    /\ ~va_results[1].extreme_values_match
    /\ ~va_results[1].data_consistency
    /\ va_results[2].data_consistency
    /\ ~overall_success

-----------------------------------------------------------------------------
(* Properties of the orchestrator (specification SpecMigrate) *)

\* The calls the log holds for a step with an outcome.
Logged(step, outcome) ==
    {i \in 1..Len(or_log) : or_log[i][1] = step /\ or_log[i][3] = outcome}

\* C14: migrate_full_database returns True exactly when migrate_table_data
\* returned True for at least one table of the run, whatever failed for the
\* other tables.
C14_SuccessIffOneTransferred ==
    or_pc = "done" => (or_result = "true" <=> Logged("transfer", TRUE) /= {})

\* The run returned True with one table transferred, one structure that
\* failed and one transfer that failed.
C14_Witness ==
    /\ or_pc = "done"
    /\ or_result = "true"
    /\ Cardinality(Logged("transfer", TRUE)) = 1
    /\ Logged("create", FALSE) /= {}
    /\ Logged("transfer", FALSE) /= {}

\* C19: a table whose structure creation failed is not passed to
\* migrate_table_data later in the run.
C19_NoTransferAfterFailedCreate ==
    \A i \in Logged("create", FALSE) :
      \A j \in i..Len(or_log) :
        ~(or_log[j][1] = "transfer" /\ or_log[j][2] = or_log[i][2])

\* C20: a table for which get_table_schema returned no column is passed
\* neither to create_mariadb_table nor to migrate_table_data later in the run.
C20_SkippedWithoutColumns ==
    \A i \in Logged("schema", FALSE) :
      \A j \in i..Len(or_log) :
        ~(or_log[j][1] \in {"create", "transfer"} /\ or_log[j][2] = or_log[i][2])

-----------------------------------------------------------------------------
(* Properties of the schema introspector (specification SpecDescribe) *)

\* C15: for a table that does not exist in the source schema the call returns
\* empty columns, primary keys and foreign keys, and it has run none of the
\* column strategies.
C15_FailsSoftly ==
    (gs_pc = "done" /\ ~gs_table.exists)
    => /\ gs_columns = <<>>
       /\ gs_primary_keys = <<>>
       /\ gs_foreign_keys = <<>>
       /\ Range(gs_ran) \cap Range(ColumnStrategies) = {}

\* The call returned for a table that does not exist, after the existence
\* query and the listing of the available tables.
C15_Witness ==
    /\ gs_pc = "done"
    /\ ~gs_table.exists
    /\ gs_ran = <<"exists", "list">>
    /\ gs_columns = <<>>

-----------------------------------------------------------------------------
(* Properties of clean (specification SpecClean) *)

\* table_order of migrate_full_database, the names as sequences of characters.
table_order_names == <<
    <<"C","o","m","p","a","n","y","O","w","n","e","r">>,
    <<"F","a","c","t","o","r","y">>,
    <<"A","n","n","o","u","n","c","e","m","e","n","t">>,
    <<"V","i","o","l","a","t","i","o","n","C","a","s","e">>,
    <<"M","e","m","o">>,
    <<"A","l","l","o","w","R","e","w","o","r","k">>,
    <<"A","p","p","e","a","l">>,
    <<"I","l","l","e","g","a","l","P","r","o","f","i","t">>,
    <<"I","n","s","p","e","c","t","i","o","n">>,
    <<"D","e","t","a","i","l">> >>

Reverse(s) == [i \in 1..Len(s) |-> s[Len(s) + 1 - i]]

\* The names of the DROP statements of a call, in the order they were issued.
DropNames(log) ==
    LET drops == SelectSeq(log, LAMBDA s : s[1] = "drop")
    IN  [i \in 1..Len(drops) |-> drops[i][2]]

\* Foreign-key checks were switched off before the first DROP of every call.
C16_OffBeforeDrops ==
    \A r \in 1..Len(cl_log) :
      \A i \in 1..Len(cl_log[r]) :
        cl_log[r][i][1] = "drop"
          => \E j \in 1..(i - 1) : cl_log[r][j] = <<"fk_off", "", TRUE>>

\* The DROP statements of every call name tables of the priority list, in the
\* reverse of its order.
C16_ReverseOrder ==
    \A r \in 1..Len(cl_log) :
      DropNames(cl_log[r])
        = SelectSeq(Reverse(table_order_names),
                    LAMBDA tn : tn \in Range(DropNames(cl_log[r])))

\* In every call that switched the checks off, the statement that switches
\* them on again was issued after the last DROP, also when a DROP failed, and
\* no session is left open with the checks off.
C16_OnAfterDrops ==
    \A r \in 1..Len(cl_log) :
      /\ (\E j \in 1..Len(cl_log[r]) : cl_log[r][j] = <<"fk_off", "", TRUE>>)
           => \E k \in 1..Len(cl_log[r]) :
                /\ cl_log[r][k][1] = "fk_on"
                /\ \A i \in 1..Len(cl_log[r]) : cl_log[r][i][1] = "drop" => i < k
      /\ cl_session[r].open => cl_session[r].fk_checks

\* The tables whose name is not in the fixed list are still there, and what a
\* call dropped is in the list.
C16_OthersUnchanged ==
    /\ \A x \in cl_before :
         (\A tn \in Range(target_tables) : lower[x] /= lower[tn]) => x \in cl_tables
    /\ \A r \in 1..Len(cl_dropped) :
         \A x \in cl_dropped[r] : \E tn \in Range(target_tables) : lower[x] = lower[tn]

\* Every DROP of the first call succeeded and the call went through its loop.
FirstCallDroppedAll ==
    /\ \E j \in 1..Len(cl_log[1]) : cl_log[1][j] = <<"fk_off", "", TRUE>>
    /\ \A i \in 1..Len(cl_log[1]) : cl_log[1][i][1] = "drop" => cl_log[1][i][3]

-----------------------------------------------------------------------------
(* Properties of the source access (specification SpecSource) *)

\* C17: whatever operations ran, the source database holds the tables and the
\* rows it held before the first of them, and every statement issued on it
\* is a SELECT.
C17_SourceReadOnly ==
    /\ sa_db = sa_initial
    /\ \A i \in 1..Len(sa_log) :
         \A j \in 1..Len(sa_log[i][3]) : sa_log[i][3][j][1] = "SELECT"

\* A transfer and a validation ran to their last statement on a source table
\* that holds a row.
C17_Witness ==
    /\ Len(sa_log) = 2
    /\ sa_log[1][1] = "migrate_table_data"
    /\ sa_log[2][1] = "validate_single_table"
    /\ \A i \in 1..2 :
         /\ sa_log[i][2] = "Factory"
         /\ sa_log[i][3] = SourceStatements(sa_log[i][1])
    /\ sa_db["Factory"] = Rows(1)

-----------------------------------------------------------------------------
(* Properties of a failing page insert (specification Spec) *)

\* The rows of the page fetched last.
LastPage == pages[Len(pages)][2]

\* The state once a page insert has returned failure: the transfer has
\* returned failure, the target connection is closed, the open transaction is
\* rolled back and the table holds no row of the failing page.
AfterFailedInsert ==
    failure = "insert" =>
        /\ pc = "done"
        /\ result = "false"
        /\ ~conn_open
        /\ txn = <<>>
        /\ pages /= <<>>
        /\ SeqRange(LastPage) \cap SeqRange(table) = {}
        /\ batch_number = Len(pages)

\* C18: when a chunk insert fails, the page insert returns failure without
\* raising and the transfer rolls back the open transaction, closes the
\* target connection and returns failure, so that no row of the failing page
\* is in the table, the rows of its chunks submitted before the failing one
\* included; no further page is fetched or inserted afterwards.
C18_InsertFailureAborts ==
    /\ []AfterFailedInsert
    /\ [][failure = "insert" =>
            UNCHANGED <<pages, inserted, table, batch_number>>]_vars

\* The second chunk of a page of more than ChunkSize rows fails: the rows of
\* the first chunk were submitted and are not in the table.
C18_Witness ==
    /\ failure = "insert"
    /\ pc = "done"
    /\ Len(LastPage) > ChunkSize
    /\ Len(inserted) = ChunkSize
    /\ SeqRange(inserted) \subseteq SeqRange(LastPage)
    /\ table = <<>>

-----------------------------------------------------------------------------
(* Properties of the order of the orchestrated run (specification SpecMigrate) *)

\* The positions of the log that hold a step.
Steps(step) == {i \in 1..Len(or_log) : or_log[i][1] = step}

\* C21: the three phases are strictly sequential: no structure is created
\* after the first transfer of the run started, and the report follows the
\* last transfer.
C21_PhasesSequential ==
    /\ \A i \in Steps("transfer") : \A j \in Steps("create") : j < i
    /\ \A i \in Steps("transfer") : \A j \in Steps("report") : i < j

\* C22: a run that obtained a non-empty table list attempts every table of
\* the list and comes back from the report phase.
C22_EveryTableAttempted ==
    (or_pc = "done" /\ all_tables /= <<>>) =>
        /\ \A tn \in Range(all_tables) : \E i \in 1..Len(or_log) : or_log[i][2] = tn
        /\ Steps("report") /= {}

\* The names of the tables whose transfer returned the outcome, in the order
\* of the calls.
TransferNames(outcome) ==
    LET calls == SelectSeq(or_log, LAMBDA e : e[1] = "transfer" /\ e[3] = outcome)
    IN  [i \in 1..Len(calls) |-> calls[i][2]]

\* C23: a run in which a transfer failed still transfers every priority table
\* of the source, still attempts every other table and reports; failed_tables
\* holds the names of the failed transfers, in the order of the calls, and no
\* name of a successful one.
C23_FailureDoesNotAbort ==
    /\ failed_tables = TransferNames(FALSE)
    /\ Range(failed_tables) \cap Range(TransferNames(TRUE)) = {}
    /\ (or_pc = "done" /\ Logged("transfer", FALSE) /= {}) =>
          /\ Steps("report") /= {}
          /\ \A tn \in Range(all_tables) :
                IF tn \in Range(table_order)
                THEN \E i \in Steps("transfer") : or_log[i][2] = tn
                ELSE \E i \in Steps("schema") : or_log[i][2] = tn

\* The first transfer of a run failed, a later one succeeded and a table
\* outside the priority list was attempted after it.
C23_Witness ==
    /\ or_pc = "done"
    /\ Len(failed_tables) = 1
    /\ Steps("transfer") /= {}
    /\ \A i \in Steps("transfer") : \A j \in Logged("transfer", FALSE) : j <= i
    /\ Logged("transfer", TRUE) /= {}
    /\ \E i \in Steps("schema") :
          /\ or_log[i][2] \notin Range(table_order)
          /\ \A j \in Steps("transfer") : j < i

\* The place of a table in the migration plan: its index in the priority
\* list, or behind the list its index in the discovered tables.
IndexIn(tn, s) == CHOOSE i \in 1..Len(s) : s[i] = tn

PlanRank(tn) ==
    IF tn \in Range(table_order) THEN IndexIn(tn, table_order)
    ELSE Len(table_order) + IndexIn(tn, all_tables)

\* The positions of the log at which a table is taken up: the structure phase
\* and the rest of the run are two passes over the plan.
Pass(steps) == {i \in 1..Len(or_log) : or_log[i][1] \in steps}

InPlanOrder(positions) ==
    \A i, j \in positions :
        (i < j /\ or_log[i][2] /= or_log[j][2]) =>
            PlanRank(or_log[i][2]) < PlanRank(or_log[j][2])

-----------------------------------------------------------------------------
(* Properties of the strategies of the introspector (specification SpecDescribe) *)

\* The call reached its column strategies: the connection opened and the
\* existence query found the table.
ReachedStrategies ==
    /\ gs_pc = "done"
    /\ gs_outcomes.connected
    /\ gs_outcomes.check = "rows"
    /\ gs_table.exists

\* The strategies that gave a non-empty column list, by index.
Yielding ==
    {i \in 1..Len(ColumnStrategies) :
        StrategyColumns(ColumnStrategies[i], gs_outcomes.o[i], gs_table) /= <<>>}

\* The column strategies the call ran, in the order it ran them.
RanStrategies == SelectSeq(gs_ran, LAMBDA q : q \in Range(ColumnStrategies))

\* C25: the three strategies are tried in their fixed order, a strategy runs
\* exactly when every earlier one gave an empty list or failed, the returned
\* columns are those of the first strategy that gave a non-empty list, and
\* when none did the call returns three empty lists.
C25_FirstStrategyWins ==
    ReachedStrategies =>
        /\ \E n \in 1..Len(ColumnStrategies) : RanStrategies = SubSeq(ColumnStrategies, 1, n)
        /\ \A i \in 1..Len(ColumnStrategies) :
              (ColumnStrategies[i] \in Range(gs_ran)) <=> (\A j \in 1..(i - 1) : j \notin Yielding)
        /\ IF Yielding = {}
           THEN gs_columns = <<>> /\ gs_primary_keys = <<>> /\ gs_foreign_keys = <<>>
           ELSE LET first == CHOOSE i \in Yielding : \A j \in Yielding : i <= j
                IN  gs_columns = StrategyColumns(ColumnStrategies[first],
                                                 gs_outcomes.o[first], gs_table)

\* The first strategy raised, the second gave no row and the probe gave the
\* columns.
C25_Witness ==
    /\ ReachedStrategies
    /\ gs_outcomes.o = <<"raise", "empty", "rows">>
    /\ RanStrategies = ColumnStrategies
    /\ gs_columns = ProbeColumns(gs_table.columns)
    /\ Len(gs_columns) = 3

\* C26: the catalog query for the primary key is tried whenever the
\* key-column-usage query gave no primary-key column, also when it raised,
\* and a failure of the key queries leaves the resolved columns in the result.
C26_CatalogFallback ==
    (ReachedStrategies /\ Yielding /= {}) =>
        /\ gs_columns /= <<>>
        /\ (gs_outcomes.pk1 /= "rows" \/ gs_table.primary_key = <<>>)
              => "pk_catalog" \in Range(gs_ran)

\* The names of a column list.
ColumnNames(columns) == {columns[i][1] : i \in 1..Len(columns)}

\* C27: the primary-key columns the call returns are columns it returns, by
\* name.
C27_KeysAreColumns ==
    gs_pc = "done" => Range(gs_primary_keys) \subseteq ColumnNames(gs_columns)

\* The probe gave the columns and the catalog query the primary key.
C27_Witness ==
    /\ ReachedStrategies
    /\ RanStrategies = ColumnStrategies
    /\ "pk_catalog" \in Range(gs_ran)
    /\ gs_primary_keys = <<"id">>
    /\ Len(gs_columns) = 2

-----------------------------------------------------------------------------
(* Properties of the creation check (specification SpecCreate) *)

\* The number of rows DESCRIBE gives for a table.
Described(target) == IF target.exists THEN Len(target.columns) ELSE 0

\* C28: a call returns False whenever a statement of it raised a driver error
\* and whenever the target table it leaves has another number of columns than
\* the descriptors it was given.
C28_FailureReported ==
    \A i \in 1..Len(ct_returned) :
        (\/ ct_raised[i] /= {}
         \/ Described(ct_after[i]) /= Len(ct_columns))
            => ~ct_returned[i]

-----------------------------------------------------------------------------
(* Properties of the transfer of an empty table (specification Spec) *)

\* The count was read and is zero.
EmptyTransfer == pc = "done" /\ failure = "" /\ source = <<>>

\* C29: when the count of the source table is zero the call returns success
\* having fetched no page, inserted no row and issued neither a commit nor a
\* rollback: it only closes the target connection, and the target table is as
\* it was.
C29_EmptyTableNoOp ==
    EmptyTransfer =>
        /\ result = "true"
        /\ pages = <<>>
        /\ inserted = <<>>
        /\ batch_number = 0
        /\ Range(target_calls) \cap {"insert", "commit", "rollback"} = {}
        /\ table = <<>> /\ txn = <<>>
        /\ ~conn_open

\* The call returned for an empty source table after the count query.
C29_Witness ==
    /\ EmptyTransfer
    /\ total_records = 0
    /\ result = "true"
    /\ target_calls = <<"close">>

-----------------------------------------------------------------------------
(* Properties of the sample check (specification SpecValidate) *)

\* The validated calls in which both counts were read, are equal and are not
\* zero, and no query failed.
EqualCounts ==
    {i \in 1..Len(va_results) :
        /\ va_names[i] /= "Memo"
        /\ va_raised[i] = "none"
        /\ va_data.tgt_exists
        /\ Len(va_data.src) = Len(va_data.tgt)
        /\ Len(va_data.src) > 0}

\* C30: the sample check compares the sizes of the two samples only: with
\* equal non-zero counts and no failing query sample_data_match is True
\* whatever the rows hold, so the table is reported consistent as soon as the
\* extremes of its numeric column are equal.
C30_SampleComparesSizes ==
    \A i \in EqualCounts :
        /\ va_results[i].sample_data_match
        /\ va_results[i].data_consistency = va_results[i].extreme_values_match
        /\ (va_data.data_type \in ExtremeTypes /\ Extremes(va_data.src) = Extremes(va_data.tgt))
              => va_results[i].data_consistency

\* An int column of three rows whose middle value differs in the target: the
\* extremes are checked and equal, and the table is reported consistent.
C30_Witness ==
    /\ EqualCounts /= {}
    /\ va_data.data_type = <<"i","n","t">>
    /\ va_data.src = <<1, 1, 2>>
    /\ va_data.tgt = <<1, 2, 2>>
    /\ \A i \in EqualCounts : va_results[i].data_consistency

-----------------------------------------------------------------------------
(* Properties of the validation pass (specification SpecValidate) *)

\* C31: a table whose validation met a failing connection or query is
\* reported not consistent and makes the overall result a failure; the pass
\* goes on: no table of the list is dropped from it, and when it returns
\* there is one result for every table of the list.
C31_FailureDegradesOneTable ==
    /\ [](/\ Len(va_results) = Len(va_names)
          /\ Len(va_raised) = Len(va_names)
          /\ \A i \in 1..Len(va_results) :
                va_raised[i] /= "none" =>
                   /\ ~va_results[i].data_consistency
                   /\ ~overall_success
          /\ va_pc = "done" => va_todo = <<>>)
    /\ [][va_names' \o va_todo' = va_names \o va_todo]_vars

\* The first of two tables met a failing count query on the target and the
\* second one was validated and found consistent.
C31_Witness ==
    /\ va_pc = "done"
    /\ va_names = <<"Detail", "Factory">>
    /\ va_raised = <<"mariadb_count", "none">>
    /\ ~va_results[1].data_consistency
    /\ va_results[2].data_consistency
    /\ ~overall_success

\* C33: for every table of the list, whatever its name, the two counts of the
\* result are those read from the two engines, and a table is reported
\* consistent only if it was compared and its counts are equal.
C33_CountsAreRead ==
    \A i \in 1..Len(va_results) :
        va_results[i].data_consistency =>
            /\ va_data.tgt_exists
            /\ va_results[i].mssql_count = Len(va_data.src)
            /\ va_results[i].mariadb_count = Len(va_data.tgt)
            /\ Len(va_data.src) = Len(va_data.tgt)

\* C34: a table with no row in the source and no row in the target, none of
\* whose queries fails, is reported consistent and leaves the overall result
\* a success.
C34_EmptyTablesConsistent ==
    \A i \in 1..Len(va_results) :
        (/\ va_raised[i] = "none"
         /\ va_names[i] /= "Memo"
         /\ va_data.tgt_exists
         /\ va_data.src = <<>>
         /\ va_data.tgt = <<>>)
            => /\ va_results[i].data_consistency
               /\ (\A j \in 1..Len(va_results) : va_raised[j] = "none") => overall_success

-----------------------------------------------------------------------------
(* Properties of the page normalisation (specification SpecNormalise) *)

\* C32: the normalised column has as many values as the fetched one, a null
\* is handed over as None, and a text is handed over as it was fetched,
\* whatever the name of its column.
C32_TextPassesUnchanged ==
    nm_pc = "done" =>
        /\ Len(nm_row) = Len(nm_column.values)
        /\ \A i \in 1..Len(nm_row) :
              /\ IsNull(nm_column.values[i]) => nm_row[i] = PyNone
              /\ nm_column.values[i][1] = "str" => nm_row[i] = nm_column.values[i]

-----------------------------------------------------------------------------
(* Properties of the validate action (specification SpecMain) *)

\* C35: the validate action only inspects the target: it issues no statement
\* that drops, creates or writes a table, whatever tables the target holds
\* when it starts.
C35_InspectionOnly ==
    \A i \in 1..Len(mn_statements) : mn_statements[i][1] \in {"SHOW TABLES", "SELECT"}

\* The transfer needs fewer pages than the commit interval.
FewPages == total_records > 0 /\ CeilDiv(total_records, batch_size) < CommitEvery

\* The number of page inserts before the first commit on the target connection.
RECURSIVE InsertsBeforeCommit(_)
InsertsBeforeCommit(calls) ==
    IF calls = <<>> \/ Head(calls) = "commit" THEN 0
    ELSE (IF Head(calls) = "insert" THEN 1 ELSE 0) + InsertsBeforeCommit(Tail(calls))

\* C36: when the transfer needs fewer than CommitEvery pages, the first commit
\* comes after the insert of the last page, a failing page leaves the target
\* table without any row of the run, and the table holds either no row or
\* every row of the source.
C36_FewPagesAllOrNothing ==
    FewPages =>
        /\ "commit" \in SeqRange(target_calls) =>
              /\ InsertsBeforeCommit(target_calls) = CeilDiv(total_records, batch_size)
              /\ Len(pages) = CeilDiv(total_records, batch_size)
        /\ failure \in {"fetch", "insert"} => table = <<>>
        /\ table = <<>> \/ table = source

\* A third page fails after two pages were inserted; nothing is in the table.
C36_Witness ==
    /\ FewPages
    /\ failure = "insert"
    /\ Len(pages) = 3
    /\ Len(inserted) >= 2
    /\ table = <<>>
    /\ "commit" \notin SeqRange(target_calls)

\* The transfer under the scheduling of the interpreter: a call that can take
\* a step takes it.
SpecTerminates == Init /\ [][Next]_vars /\ WF_vars(Next)

\* The pages whose insert succeeded and were followed by no failing commit.
SuccessfulPages == Len(pages) - (IF failure \in {"insert", "commit"} THEN 1 ELSE 0)

C38_TargetConnectionClosed == pc = "done" => ~conn_open

\* The lengths tried that a VARCHAR of the target cannot have.
OverLongLengths == {v \in {l[1] : l \in Lengths \ {None}} : v <= 0 \/ v > VarcharLimit}

\* C39: no VARCHAR(n) that convert_datatype returns has n <= 0 or
\* n > 16383, whatever the source type and the length.
C39_VarcharWithinLimit ==
    mt_pc = "done" => \A v \in OverLongLengths : mt_out /= Fmt1("VARCHAR", v)

-----------------------------------------------------------------------------
(* Properties of the cached source engine (specification SpecEngine) *)

\* C40: every engine a call of create_mssql_engine returns has passed a
\* connectivity test.
C40_ReturnedEngineTested ==
    \A i \in 1..Len(en_calls) :
        en_calls[i].returned /= None => en_calls[i].returned[1].tested

=============================================================================
